---- MODULE Spec2Model ----
(***************************************************************************)
(* A model of the transaction payload wire codec, the Clarity integer      *)
(* constructors and the Bitcoin address decoding of the stacking package.  *)
(*                                                                         *)
(* Bytes are naturals 0..255 and byte strings are sequences of them.       *)
(* Arbitrary-precision integers (JavaScript bigint) are kept exactly, as a *)
(* sign and a big-endian magnitude without leading zero bytes, so that the *)
(* 64-bit and 128-bit limits of the code are the real ones.                *)
(***************************************************************************)
EXTENDS Integers, Sequences, FiniteSets, TLC

(***************************************************************************)
(* Bounds of the model.                                                    *)
(***************************************************************************)
\* integers are drawn from every limit of the code, plus and minus IntDelta
IntDelta == 2
\* a contract call carries at most MaxArgs function arguments
MaxArgs == 2

Byte == 0 .. 255

(***************************************************************************)
(* Byte-string helpers.                                                    *)
(***************************************************************************)
Fill(n, b) == [i \in 1 .. n |-> b]

\* the bytes b, b+1, ... of length n (a recognisable, position-dependent pattern)
Ramp(n, b) == [i \in 1 .. n |-> (b + i - 1) % 256]

Drop(s, n) == IF n >= Len(s) THEN << >> ELSE SubSeq(s, n + 1, Len(s))

Take(s, n) == IF n >= Len(s) THEN s ELSE SubSeq(s, 1, n)

RECURSIVE StripZeros(_)
StripZeros(s) == IF s # << >> /\ s[1] = 0 THEN StripZeros(Tail(s)) ELSE s

\* left-pad with zero bytes to n bytes, or keep the n low-order bytes
FixWidth(s, n) == IF Len(s) >= n THEN Drop(s, Len(s) - n) ELSE Fill(n - Len(s), 0) \o s

(***************************************************************************)
(* bigint: [neg, mag], mag big-endian without leading zeros; zero is       *)
(* [neg |-> FALSE, mag |-> << >>].                                         *)
(***************************************************************************)
Big(neg, mag) == [neg |-> neg /\ StripZeros(mag) # << >>, mag |-> StripZeros(mag)]

BigZero == Big(FALSE, << >>)

RECURSIVE MagInc(_)
\* magnitude + 1
MagInc(m) ==
  IF m = << >> THEN << 1 >>
  ELSE IF m[Len(m)] < 255 THEN [m EXCEPT ![Len(m)] = @ + 1]
  ELSE MagInc(Take(m, Len(m) - 1)) \o << 0 >>

RECURSIVE MagDec(_)
\* magnitude - 1, for a magnitude > 0
MagDec(m) ==
  IF m[Len(m)] > 0 THEN StripZeros([m EXCEPT ![Len(m)] = @ - 1])
  ELSE StripZeros(MagDec(Take(m, Len(m) - 1)) \o << 255 >>)

BigSucc(a) ==
  IF a.neg THEN Big(TRUE, MagDec(a.mag)) ELSE Big(FALSE, MagInc(a.mag))

BigPred(a) ==
  IF a.neg THEN Big(TRUE, MagInc(a.mag))
  ELSE IF a.mag = << >> THEN Big(TRUE, << 1 >>)
  ELSE Big(FALSE, MagDec(a.mag))

RECURSIVE BigAdd(_, _)
\* a + d for a small integer d
BigAdd(a, d) ==
  IF d = 0 THEN a
  ELSE IF d > 0 THEN BigAdd(BigSucc(a), d - 1)
  ELSE BigAdd(BigPred(a), d + 1)

RECURSIVE MagLess(_, _)
MagLess(m, n) ==
  IF Len(m) # Len(n) THEN Len(m) < Len(n)
  ELSE IF m = << >> THEN FALSE
  ELSE IF m[1] # n[1] THEN m[1] < n[1]
  ELSE MagLess(Tail(m), Tail(n))

\* a < b
BigLess(a, b) ==
  IF a.neg # b.neg THEN a.neg
  ELSE IF a.neg THEN MagLess(b.mag, a.mag)
  ELSE MagLess(a.mag, b.mag)

\* a > b
BigGreater(a, b) == BigLess(b, a)

\* 2^(8n)
BigPow256(n) == Big(FALSE, << 1 >> \o Fill(n, 0))

\* the n-byte two's complement of a magnitude: 2^(8n) - m, for 0 < m <= 2^(8n)
TwosComplement(m, n) == FixWidth(MagInc([i \in 1 .. n |-> 255 - FixWidth(m, n)[i]]), n)

(***************************************************************************)
(* Results of calls that may throw.                                        *)
(***************************************************************************)
Ok(v) == [ok |-> TRUE, error |-> "", value |-> v]

Throw(e) == [ok |-> FALSE, error |-> e, value |-> << >>]

(***************************************************************************)
(* @stacks/common conversions.  An IntegerType argument is a bigint        *)
(* [kind |-> "bigint", v |-> ...] or a Uint8Array [kind |-> "bytes", ...]. *)
(***************************************************************************)
IntOf(v) == [kind |-> "bigint", v |-> v]

BytesOf(b) == [kind |-> "bytes", bytes |-> b]

\* a bigint is returned as it is; bytes are read big-endian, as two's
\* complement when signed
intToBigInt(value, signed) ==
  IF value.kind = "bigint" THEN value.v
  ELSE IF signed /\ value.bytes # << >> /\ value.bytes[1] >= 128
       THEN Big(TRUE, TwosComplement(value.bytes, Len(value.bytes)))
  ELSE Big(FALSE, value.bytes)

\* fixed-width big-endian bytes of an integer, two's complement when negative
intToBytes(value, signed, byteLength) ==
  LET v == intToBigInt(value, signed)
  IN IF v.neg THEN TwosComplement(v.mag, byteLength) ELSE FixWidth(v.mag, byteLength)

\* a 32-bit big-endian integer (writeUInt32BE into a fresh 4-byte array)
writeUInt32BE(n) ==
  << (n \div 16777216) % 256, (n \div 65536) % 256, (n \div 256) % 256, n % 256 >>

\* The value of 4 big-endian bytes.  TLC's integers end at
\* 2^31 - 1: a value of 2^31 or more is kept as 2^31 - 1, which is more than
\* the length of every buffer of the model, so that each read and each loop
\* bounded by it ends as it does with the exact value.
readUInt32BEOf(b) ==
  IF b[1] >= 128 THEN 2147483647
  ELSE b[1] * 16777216 + b[2] * 65536 + b[3] * 256 + b[4]

\* one byte (writeUInt8 into a fresh 1-byte array)
writeUInt8(n) == << n % 256 >>

(***************************************************************************)
(* Hex strings are sequences of hex digits 0..15; two digits make a byte.  *)
(***************************************************************************)
hexToBytes(hex) ==
  LET h == IF Len(hex) % 2 = 1 THEN << 0 >> \o hex ELSE hex
  IN [i \in 1 .. (Len(h) \div 2) |-> h[2 * i - 1] * 16 + h[2 * i]]

bytesToHex(bytes) ==
  [i \in 1 .. (2 * Len(bytes)) |->
     IF i % 2 = 1 THEN bytes[(i + 1) \div 2] \div 16 ELSE bytes[i \div 2] % 16]

(***************************************************************************)
(* clarity/values/intCV.ts                                                 *)
(***************************************************************************)
ClarityType ==
  [Int |-> 0, UInt |-> 1, Buffer |-> 2, BoolTrue |-> 3, BoolFalse |-> 4,
   PrincipalStandard |-> 5, PrincipalContract |-> 6, OptionalNone |-> 9,
   OptionalSome |-> 10, Tuple |-> 12]

MAX_U128 == Big(FALSE, Fill(16, 255))

MIN_U128 == BigZero

MAX_I128 == Big(FALSE, << 127 >> \o Fill(15, 255))

MIN_I128 == Big(TRUE, << 128 >> \o Fill(15, 0))

\* intCV with the upper limit excluded (>= for >)
intCV_maxExcluded(value) ==
  LET bigInt == intToBigInt(value, TRUE)
  IN IF ~BigLess(bigInt, MAX_I128) THEN Throw("RangeError")
     ELSE IF BigLess(bigInt, MIN_I128) THEN Throw("RangeError")
     ELSE Ok([type |-> ClarityType.Int, value |-> bigInt])

intCV(value) ==
  LET bigInt == intToBigInt(value, TRUE)
  IN IF BigGreater(bigInt, MAX_I128) THEN Throw("RangeError")
     ELSE IF BigLess(bigInt, MIN_I128) THEN Throw("RangeError")
     ELSE Ok([type |-> ClarityType.Int, value |-> bigInt])

\* uintCV without the check of negative values
uintCV_noLowerCheck(value) ==
  LET bigInt == intToBigInt(value, FALSE)
  IN IF BigGreater(bigInt, MAX_U128) THEN Throw("RangeError")
     ELSE Ok([type |-> ClarityType.UInt, value |-> bigInt])

uintCV(value) ==
  LET bigInt == intToBigInt(value, FALSE)
  IN IF BigLess(bigInt, MIN_U128) THEN Throw("RangeError")
     ELSE IF BigGreater(bigInt, MAX_U128) THEN Throw("RangeError")
     ELSE Ok([type |-> ClarityType.UInt, value |-> bigInt])

(***************************************************************************)
(* BytesReader: a cursor over a byte buffer.  A read returns               *)
(* [ok, error, value, consumed]; consumed is the offset after the read.    *)
(***************************************************************************)
Read(v, consumed) == [ok |-> TRUE, error |-> "", value |-> v, consumed |-> consumed]

Fail(e, consumed) == [ok |-> FALSE, error |-> e, value |-> << >>, consumed |-> consumed]

readBytes(source, consumed, length) ==
  IF consumed + length > Len(source) THEN Fail("Underflow", consumed)
  ELSE Read(SubSeq(source, consumed + 1, consumed + length), consumed + length)

readUInt8(source, consumed) ==
  LET r == readBytes(source, consumed, 1)
  IN IF r.ok THEN Read(r.value[1], r.consumed) ELSE r

readUInt32BE(source, consumed) ==
  LET r == readBytes(source, consumed, 4)
  IN IF r.ok THEN Read(readUInt32BEOf(r.value), r.consumed) ELSE r

\* reads one byte and fails with the caller's error when it is no enum value
readUInt8Enum(source, consumed, enumValues, onUnknown) ==
  LET r == readUInt8(source, consumed)
  IN IF ~r.ok THEN r
     ELSE IF r.value \in enumValues THEN r
     ELSE Fail(onUnknown, r.consumed)

(***************************************************************************)
(* The Clarity value sub-codec: one type-tag byte, then the value.         *)
(***************************************************************************)
trueCV == [type |-> ClarityType.BoolTrue]

falseCV == [type |-> ClarityType.BoolFalse]

noneCV == [type |-> ClarityType.OptionalNone]

someCV(v) == [type |-> ClarityType.OptionalSome, value |-> v]

standardPrincipalCV(version, hash160) ==
  [type |-> ClarityType.PrincipalStandard, address |-> [version |-> version, hash160 |-> hash160]]

contractPrincipalCV(version, hash160, name) ==
  [type |-> ClarityType.PrincipalContract,
   address |-> [version |-> version, hash160 |-> hash160], contractName |-> name]

RECURSIVE serializeCVBytes(_)
serializeCVBytes(cv) ==
  << cv.type >> \o
  ( CASE cv.type = ClarityType.Int -> intToBytes(IntOf(cv.value), TRUE, 16)
      [] cv.type = ClarityType.UInt -> intToBytes(IntOf(cv.value), FALSE, 16)
      [] cv.type = ClarityType.PrincipalStandard ->
           << cv.address.version >> \o cv.address.hash160
      [] cv.type = ClarityType.PrincipalContract ->
           << cv.address.version >> \o cv.address.hash160
             \o << Len(cv.contractName) >> \o cv.contractName
      [] cv.type = ClarityType.OptionalSome -> serializeCVBytes(cv.value)
      [] OTHER -> << >> )

RECURSIVE deserializeCV(_, _)
deserializeCV(source, consumed) ==
  LET t == readUInt8(source, consumed)
  IN IF ~t.ok THEN t
     ELSE CASE t.value = ClarityType.Int ->
            LET b == readBytes(source, t.consumed, 16)
            IN IF ~b.ok THEN b
               ELSE Read(intCV(BytesOf(b.value)).value, b.consumed)
       [] t.value = ClarityType.UInt ->
            LET b == readBytes(source, t.consumed, 16)
            IN IF ~b.ok THEN b
               ELSE Read(uintCV(BytesOf(b.value)).value, b.consumed)
       [] t.value = ClarityType.BoolTrue -> Read(trueCV, t.consumed)
       [] t.value = ClarityType.BoolFalse -> Read(falseCV, t.consumed)
       [] t.value = ClarityType.PrincipalStandard ->
            LET b == readBytes(source, t.consumed, 21)
            IN IF ~b.ok THEN b
               ELSE Read(standardPrincipalCV(b.value[1], Tail(b.value)), b.consumed)
       [] t.value = ClarityType.PrincipalContract ->
            LET b == readBytes(source, t.consumed, 21)
                n == readUInt8(source, b.consumed)
                c == readBytes(source, n.consumed, n.value)
            IN IF ~b.ok THEN b
               ELSE IF ~n.ok THEN n
               ELSE IF ~c.ok THEN c
               ELSE Read(contractPrincipalCV(b.value[1], Tail(b.value), c.value), c.consumed)
       [] t.value = ClarityType.OptionalNone -> Read(noneCV, t.consumed)
       [] t.value = ClarityType.OptionalSome ->
            LET v == deserializeCV(source, t.consumed)
            IN IF ~v.ok THEN v ELSE Read(someCV(v.value), v.consumed)
       [] OTHER -> Fail("DeserializationError", t.consumed)

(***************************************************************************)
(* constants.ts and types.ts: the wire tags and the string types.          *)
(***************************************************************************)
COINBASE_BYTES_LENGTH == 32

VRF_PROOF_BYTES_LENGTH == 80

MEMO_MAX_LENGTH_BYTES == 34

MAX_STRING_LENGTH_BYTES == 128

MAX_CODE_BODY_LENGTH_BYTES == 100000

PayloadType ==
  [TokenTransfer |-> 0, ContractCall |-> 1, SmartContract |-> 2,
   PoisonMicroblock |-> 3, Coinbase |-> 4, CoinbaseToAltRecipient |-> 5,
   VersionedSmartContract |-> 6, TenureChange |-> 7, NakamotoCoinbase |-> 8]

PayloadTypeValues == {PayloadType[k] : k \in DOMAIN PayloadType}

ClarityVersion == [Clarity1 |-> 1, Clarity2 |-> 2]

ClarityVersionValues == {ClarityVersion[k] : k \in DOMAIN ClarityVersion}

TenureChangeCause == [BlockFound |-> 0, Extended |-> 1]

TenureChangeCauseValues == {TenureChangeCause[k] : k \in DOMAIN TenureChangeCause}

\* the value of an argument that is left out
Undefined == [undefined |-> TRUE]

\* a JavaScript string argument, as its bytes
Str(content) == [str |-> content]

\* a JavaScript number argument
Num(n) == [number |-> n]

IsString(x) == "str" \in DOMAIN x

createLPString(content, lengthPrefixBytes, maxLengthBytes) ==
  IF Len(content) > maxLengthBytes THEN Throw("StringTooLong")
  ELSE Ok([content |-> content, lengthPrefixBytes |-> lengthPrefixBytes,
           maxLengthBytes |-> maxLengthBytes])

codeBodyString(content) == createLPString(content, 4, MAX_CODE_BODY_LENGTH_BYTES)

serializeLPString(lps) ==
  FixWidth(writeUInt32BE(Len(lps.content)), lps.lengthPrefixBytes) \o lps.content

deserializeLPStringBytes(source, consumed, prefixBytes, maxLength) ==
  LET n == readBytes(source, consumed, prefixBytes)
      c == readBytes(source, n.consumed, readUInt32BEOf(FixWidth(n.value, 4)))
      l == createLPString(c.value, prefixBytes, maxLength)
  IN IF ~n.ok THEN n
     ELSE IF ~c.ok THEN c
     ELSE IF ~l.ok THEN Fail(l.error, c.consumed)
     ELSE Read(l.value, c.consumed)

createMemoString(content) ==
  IF Len(content) > MEMO_MAX_LENGTH_BYTES THEN Throw("MemoTooLong")
  ELSE Ok([content |-> content])

\* the memo is written right-padded with zero bytes to its capacity
serializeMemoString(memo) ==
  memo.content \o Fill(MEMO_MAX_LENGTH_BYTES - Len(memo.content), 0)

RECURSIVE StripTrailingZeros(_)
StripTrailingZeros(s) ==
  IF s # << >> /\ s[Len(s)] = 0 THEN StripTrailingZeros(Take(s, Len(s) - 1)) ELSE s

deserializeMemoStringBytes(source, consumed) ==
  LET b == readBytes(source, consumed, MEMO_MAX_LENGTH_BYTES)
  IN IF ~b.ok THEN b ELSE Read([content |-> StripTrailingZeros(b.value)], b.consumed)

serializeAddress(address) == << address.version >> \o address.hash160

deserializeAddressBytes(source, consumed) ==
  LET b == readBytes(source, consumed, 21)
  IN IF ~b.ok THEN b
     ELSE Read([version |-> b.value[1], hash160 |-> Tail(b.value)], b.consumed)

(***************************************************************************)
(* payload.ts: the constructors.  Each returns Ok(payload) or Throw(..).   *)
(***************************************************************************)
createTokenTransferPayload(recipient, amount, memo) ==
  LET m == IF IsString(memo) THEN createMemoString(memo.str)
           ELSE IF memo = Undefined THEN createMemoString(<< >>)
           ELSE Ok(memo)
  IN IF ~m.ok THEN m
     ELSE Ok([payloadType |-> PayloadType.TokenTransfer, recipient |-> recipient,
              amount |-> intToBigInt(amount, FALSE), memo |-> m.value])

createContractCallPayload(contractAddress, contractName, functionName, functionArgs) ==
  LET c == IF IsString(contractName)
           THEN createLPString(contractName.str, 1, MAX_STRING_LENGTH_BYTES)
           ELSE Ok(contractName)
      f == IF IsString(functionName)
           THEN createLPString(functionName.str, 1, MAX_STRING_LENGTH_BYTES)
           ELSE Ok(functionName)
  IN IF ~c.ok THEN c
     ELSE IF ~f.ok THEN f
     ELSE Ok([payloadType |-> PayloadType.ContractCall, contractAddress |-> contractAddress,
              contractName |-> c.value, functionName |-> f.value,
              functionArgs |-> functionArgs])

createSmartContractPayload(contractName, codeBody, clarityVersion) ==
  LET c == IF IsString(contractName)
           THEN createLPString(contractName.str, 1, MAX_STRING_LENGTH_BYTES)
           ELSE Ok(contractName)
      b == IF IsString(codeBody) THEN codeBodyString(codeBody.str) ELSE Ok(codeBody)
  IN IF ~c.ok THEN c
     ELSE IF ~b.ok THEN b
     ELSE IF clarityVersion # Undefined
     THEN Ok([payloadType |-> PayloadType.VersionedSmartContract,
              clarityVersion |-> clarityVersion.number,
              contractName |-> c.value, codeBody |-> b.value])
     ELSE Ok([payloadType |-> PayloadType.SmartContract,
              contractName |-> c.value, codeBody |-> b.value])

createPoisonPayload == Ok([payloadType |-> PayloadType.PoisonMicroblock])

createCoinbasePayload(coinbaseBytes, altRecipient) ==
  IF Len(coinbaseBytes) # COINBASE_BYTES_LENGTH THEN Throw("CoinbaseSize")
  ELSE IF altRecipient # Undefined
  THEN Ok([payloadType |-> PayloadType.CoinbaseToAltRecipient,
           coinbaseBytes |-> coinbaseBytes, recipient |-> altRecipient])
  ELSE Ok([payloadType |-> PayloadType.Coinbase, coinbaseBytes |-> coinbaseBytes])

createNakamotoCoinbasePayload(coinbaseBytes, recipient, vrfProof) ==
  IF Len(coinbaseBytes) # COINBASE_BYTES_LENGTH THEN Throw("CoinbaseSize")
  ELSE IF Len(vrfProof) # VRF_PROOF_BYTES_LENGTH THEN Throw("VrfProofSize")
  ELSE Ok([payloadType |-> PayloadType.NakamotoCoinbase, coinbaseBytes |-> coinbaseBytes,
           recipient |-> IF recipient.type = ClarityType.OptionalSome
                         THEN recipient.value ELSE Undefined,
           vrfProof |-> vrfProof])

createTenureChangePayload(tenureHash, previousTenureHash, burnViewHash, previousTenureEnd, previousTenureBlocks, cause, publicKeyHash) ==
  Ok([payloadType |-> PayloadType.TenureChange, tenureHash |-> tenureHash,
      previousTenureHash |-> previousTenureHash, burnViewHash |-> burnViewHash,
      previousTenureEnd |-> previousTenureEnd,
      previousTenureBlocks |-> previousTenureBlocks, cause |-> cause,
      publicKeyHash |-> publicKeyHash])

(***************************************************************************)
(* payload.ts: serializePayloadBytes, one operator per case of the switch. *)
(***************************************************************************)
RECURSIVE concatArray(_)
concatArray(arrays) ==
  IF arrays = << >> THEN << >> ELSE Head(arrays) \o concatArray(Tail(arrays))

serializeTokenTransfer(payload) ==
  serializeCVBytes(payload.recipient)
    \o intToBytes(IntOf(payload.amount), FALSE, 8)
    \o serializeMemoString(payload.memo)

serializeContractCall(payload) ==
  serializeAddress(payload.contractAddress)
    \o serializeLPString(payload.contractName)
    \o serializeLPString(payload.functionName)
    \o writeUInt32BE(Len(payload.functionArgs))
    \o concatArray([i \in 1 .. Len(payload.functionArgs) |->
                      serializeCVBytes(payload.functionArgs[i])])

serializeSmartContract(payload) ==
  serializeLPString(payload.contractName) \o serializeLPString(payload.codeBody)

serializeVersionedSmartContract(payload) ==
  << payload.clarityVersion >>
    \o serializeLPString(payload.contractName) \o serializeLPString(payload.codeBody)

serializeCoinbase(payload) == payload.coinbaseBytes

serializeCoinbaseToAltRecipient(payload) ==
  payload.coinbaseBytes \o serializeCVBytes(payload.recipient)

serializeNakamotoCoinbase(payload) ==
  payload.coinbaseBytes
    \o serializeCVBytes(IF payload.recipient # Undefined
                        THEN someCV(payload.recipient) ELSE noneCV)
    \o payload.vrfProof

serializeTenureChange(payload) ==
  hexToBytes(payload.tenureHash)
    \o hexToBytes(payload.previousTenureHash)
    \o hexToBytes(payload.burnViewHash)
    \o hexToBytes(payload.previousTenureEnd)
    \o writeUInt32BE(payload.previousTenureBlocks)
    \o writeUInt8(payload.cause)
    \o hexToBytes(payload.publicKeyHash)

\* a PoisonMicroblock payload written with a one-byte body
serializePayloadBytes_poisonBody(payload) ==
  << payload.payloadType >> \o
  ( CASE payload.payloadType = PayloadType.TokenTransfer -> serializeTokenTransfer(payload)
      [] payload.payloadType = PayloadType.ContractCall -> serializeContractCall(payload)
      [] payload.payloadType = PayloadType.SmartContract -> serializeSmartContract(payload)
      [] payload.payloadType = PayloadType.VersionedSmartContract ->
           serializeVersionedSmartContract(payload)
      [] payload.payloadType = PayloadType.PoisonMicroblock -> << 0 >>
      [] payload.payloadType = PayloadType.Coinbase -> serializeCoinbase(payload)
      [] payload.payloadType = PayloadType.CoinbaseToAltRecipient ->
           serializeCoinbaseToAltRecipient(payload)
      [] payload.payloadType = PayloadType.NakamotoCoinbase ->
           serializeNakamotoCoinbase(payload)
      [] payload.payloadType = PayloadType.TenureChange -> serializeTenureChange(payload) )

serializePayloadBytes(payload) ==
  << payload.payloadType >> \o
  ( CASE payload.payloadType = PayloadType.TokenTransfer -> serializeTokenTransfer(payload)
      [] payload.payloadType = PayloadType.ContractCall -> serializeContractCall(payload)
      [] payload.payloadType = PayloadType.SmartContract -> serializeSmartContract(payload)
      [] payload.payloadType = PayloadType.VersionedSmartContract ->
           serializeVersionedSmartContract(payload)
      [] payload.payloadType = PayloadType.PoisonMicroblock -> << >>
      [] payload.payloadType = PayloadType.Coinbase -> serializeCoinbase(payload)
      [] payload.payloadType = PayloadType.CoinbaseToAltRecipient ->
           serializeCoinbaseToAltRecipient(payload)
      [] payload.payloadType = PayloadType.NakamotoCoinbase ->
           serializeNakamotoCoinbase(payload)
      [] payload.payloadType = PayloadType.TenureChange -> serializeTenureChange(payload) )

(***************************************************************************)
(* payload.ts: deserializePayloadBytes, one operator per case.             *)
(***************************************************************************)
\* the result of a constructor called at the end of a decode
Built(created, consumed) ==
  IF created.ok THEN Read(created.value, consumed) ELSE Fail(created.error, consumed)

\* an unknown tag decoded as the body-less PoisonMicroblock variant
readPayloadType_defaulting(source, consumed) ==
  LET r == readUInt8(source, consumed)
  IN IF ~r.ok THEN r
     ELSE IF r.value \in PayloadTypeValues THEN r
     ELSE Read(PayloadType.PoisonMicroblock, r.consumed)

readPayloadType(source, consumed) ==
  readUInt8Enum(source, consumed, PayloadTypeValues, "Cannot recognize PayloadType")

deserializeTokenTransfer(source, consumed) ==
  LET recipient == deserializeCV(source, consumed)
      amount == readBytes(source, recipient.consumed, 8)
      memo == deserializeMemoStringBytes(source, amount.consumed)
  IN IF ~recipient.ok THEN recipient
     ELSE IF ~amount.ok THEN amount
     ELSE IF ~memo.ok THEN memo
     ELSE Built(createTokenTransferPayload(recipient.value,
                  IntOf(intToBigInt(BytesOf(amount.value), FALSE)), memo.value),
                memo.consumed)

\* the loop of the ContractCall case: numberOfArgs values, pushed in order
RECURSIVE readFunctionArgs(_, _, _, _)
readFunctionArgs(source, consumed, numberOfArgs, functionArgs) ==
  IF Len(functionArgs) >= numberOfArgs THEN Read(functionArgs, consumed)
  ELSE LET clarityValue == deserializeCV(source, consumed)
       IN IF ~clarityValue.ok THEN clarityValue
          ELSE readFunctionArgs(source, clarityValue.consumed, numberOfArgs,
                                Append(functionArgs, clarityValue.value))

\* the loop stopping one argument early (i < numberOfArgs - 1)
deserializeContractCall_oneShort(source, consumed) ==
  LET contractAddress == deserializeAddressBytes(source, consumed)
      contractCallName ==
        deserializeLPStringBytes(source, contractAddress.consumed, 1, MAX_STRING_LENGTH_BYTES)
      functionName ==
        deserializeLPStringBytes(source, contractCallName.consumed, 1, MAX_STRING_LENGTH_BYTES)
      numberOfArgs == readUInt32BE(source, functionName.consumed)
      functionArgs ==
        readFunctionArgs(source, numberOfArgs.consumed, numberOfArgs.value - 1, << >>)
  IN IF ~contractAddress.ok THEN contractAddress
     ELSE IF ~contractCallName.ok THEN contractCallName
     ELSE IF ~functionName.ok THEN functionName
     ELSE IF ~numberOfArgs.ok THEN numberOfArgs
     ELSE IF ~functionArgs.ok THEN functionArgs
     ELSE Built(createContractCallPayload(contractAddress.value, contractCallName.value,
                  functionName.value, functionArgs.value),
                functionArgs.consumed)

deserializeContractCall(source, consumed) ==
  LET contractAddress == deserializeAddressBytes(source, consumed)
      contractCallName ==
        deserializeLPStringBytes(source, contractAddress.consumed, 1, MAX_STRING_LENGTH_BYTES)
      functionName ==
        deserializeLPStringBytes(source, contractCallName.consumed, 1, MAX_STRING_LENGTH_BYTES)
      numberOfArgs == readUInt32BE(source, functionName.consumed)
      functionArgs ==
        readFunctionArgs(source, numberOfArgs.consumed, numberOfArgs.value, << >>)
  IN IF ~contractAddress.ok THEN contractAddress
     ELSE IF ~contractCallName.ok THEN contractCallName
     ELSE IF ~functionName.ok THEN functionName
     ELSE IF ~numberOfArgs.ok THEN numberOfArgs
     ELSE IF ~functionArgs.ok THEN functionArgs
     ELSE Built(createContractCallPayload(contractAddress.value, contractCallName.value,
                  functionName.value, functionArgs.value),
                functionArgs.consumed)

deserializeSmartContract(source, consumed) ==
  LET smartContractName ==
        deserializeLPStringBytes(source, consumed, 1, MAX_STRING_LENGTH_BYTES)
      codeBody ==
        deserializeLPStringBytes(source, smartContractName.consumed, 4, 100000)
  IN IF ~smartContractName.ok THEN smartContractName
     ELSE IF ~codeBody.ok THEN codeBody
     ELSE Built(createSmartContractPayload(smartContractName.value, codeBody.value, Undefined),
                codeBody.consumed)

deserializeVersionedSmartContract(source, consumed) ==
  LET clarityVersion ==
        readUInt8Enum(source, consumed, ClarityVersionValues, "Cannot recognize ClarityVersion")
      smartContractName ==
        deserializeLPStringBytes(source, clarityVersion.consumed, 1, MAX_STRING_LENGTH_BYTES)
      codeBody ==
        deserializeLPStringBytes(source, smartContractName.consumed, 4, 100000)
  IN IF ~clarityVersion.ok THEN clarityVersion
     ELSE IF ~smartContractName.ok THEN smartContractName
     ELSE IF ~codeBody.ok THEN codeBody
     ELSE Built(createSmartContractPayload(smartContractName.value, codeBody.value,
                  Num(clarityVersion.value)),
                codeBody.consumed)

deserializeCoinbase(source, consumed) ==
  LET coinbaseBytes == readBytes(source, consumed, COINBASE_BYTES_LENGTH)
  IN IF ~coinbaseBytes.ok THEN coinbaseBytes
     ELSE Built(createCoinbasePayload(coinbaseBytes.value, Undefined), coinbaseBytes.consumed)

deserializeCoinbaseToAltRecipient(source, consumed) ==
  LET coinbaseBytes == readBytes(source, consumed, COINBASE_BYTES_LENGTH)
      altRecipient == deserializeCV(source, coinbaseBytes.consumed)
  IN IF ~coinbaseBytes.ok THEN coinbaseBytes
     ELSE IF ~altRecipient.ok THEN altRecipient
     ELSE Built(createCoinbasePayload(coinbaseBytes.value, altRecipient.value),
                altRecipient.consumed)

deserializeNakamotoCoinbase(source, consumed) ==
  LET coinbaseBytes == readBytes(source, consumed, COINBASE_BYTES_LENGTH)
      recipient == deserializeCV(source, coinbaseBytes.consumed)
      vrfProof == readBytes(source, recipient.consumed, VRF_PROOF_BYTES_LENGTH)
  IN IF ~coinbaseBytes.ok THEN coinbaseBytes
     ELSE IF ~recipient.ok THEN recipient
     ELSE IF ~vrfProof.ok THEN vrfProof
     ELSE Built(createNakamotoCoinbasePayload(coinbaseBytes.value, recipient.value,
                  vrfProof.value),
                vrfProof.consumed)

\* the last field read as whatever is left of the buffer, up to 20 bytes
deserializeTenureChange_shortHash(source, consumed) ==
  LET tenureHash == readBytes(source, consumed, 20)
      previousTenureHash == readBytes(source, tenureHash.consumed, 20)
      burnViewHash == readBytes(source, previousTenureHash.consumed, 20)
      previousTenureEnd == readBytes(source, burnViewHash.consumed, 32)
      previousTenureBlocks == readUInt32BE(source, previousTenureEnd.consumed)
      cause == readUInt8Enum(source, previousTenureBlocks.consumed,
                             TenureChangeCauseValues, "Cannot recognize TenureChangeCause")
      left == Len(source) - cause.consumed
      publicKeyHash == readBytes(source, cause.consumed, IF left < 20 THEN left ELSE 20)
  IN IF ~tenureHash.ok THEN tenureHash
     ELSE IF ~previousTenureHash.ok THEN previousTenureHash
     ELSE IF ~burnViewHash.ok THEN burnViewHash
     ELSE IF ~previousTenureEnd.ok THEN previousTenureEnd
     ELSE IF ~previousTenureBlocks.ok THEN previousTenureBlocks
     ELSE IF ~cause.ok THEN cause
     ELSE IF ~publicKeyHash.ok THEN publicKeyHash
     ELSE Built(createTenureChangePayload(bytesToHex(tenureHash.value),
                  bytesToHex(previousTenureHash.value), bytesToHex(burnViewHash.value),
                  bytesToHex(previousTenureEnd.value), previousTenureBlocks.value,
                  cause.value, bytesToHex(publicKeyHash.value)),
                publicKeyHash.consumed)

deserializeTenureChange(source, consumed) ==
  LET tenureHash == readBytes(source, consumed, 20)
      previousTenureHash == readBytes(source, tenureHash.consumed, 20)
      burnViewHash == readBytes(source, previousTenureHash.consumed, 20)
      previousTenureEnd == readBytes(source, burnViewHash.consumed, 32)
      previousTenureBlocks == readUInt32BE(source, previousTenureEnd.consumed)
      cause == readUInt8Enum(source, previousTenureBlocks.consumed,
                             TenureChangeCauseValues, "Cannot recognize TenureChangeCause")
      publicKeyHash == readBytes(source, cause.consumed, 20)
  IN IF ~tenureHash.ok THEN tenureHash
     ELSE IF ~previousTenureHash.ok THEN previousTenureHash
     ELSE IF ~burnViewHash.ok THEN burnViewHash
     ELSE IF ~previousTenureEnd.ok THEN previousTenureEnd
     ELSE IF ~previousTenureBlocks.ok THEN previousTenureBlocks
     ELSE IF ~cause.ok THEN cause
     ELSE IF ~publicKeyHash.ok THEN publicKeyHash
     ELSE Built(createTenureChangePayload(bytesToHex(tenureHash.value),
                  bytesToHex(previousTenureHash.value), bytesToHex(burnViewHash.value),
                  bytesToHex(previousTenureEnd.value), previousTenureBlocks.value,
                  cause.value, bytesToHex(publicKeyHash.value)),
                publicKeyHash.consumed)

\* deserializePayloadBytes over the bytes of a buffer, from a reader offset
deserializePayloadBytes(source, consumed) ==
  LET payloadType == readPayloadType(source, consumed)
      at == payloadType.consumed
  IN IF ~payloadType.ok THEN payloadType
     ELSE CASE payloadType.value = PayloadType.TokenTransfer ->
                 deserializeTokenTransfer(source, at)
            [] payloadType.value = PayloadType.ContractCall ->
                 deserializeContractCall(source, at)
            [] payloadType.value = PayloadType.SmartContract ->
                 deserializeSmartContract(source, at)
            [] payloadType.value = PayloadType.VersionedSmartContract ->
                 deserializeVersionedSmartContract(source, at)
            [] payloadType.value = PayloadType.PoisonMicroblock ->
                 Built(createPoisonPayload, at)
            [] payloadType.value = PayloadType.Coinbase -> deserializeCoinbase(source, at)
            [] payloadType.value = PayloadType.CoinbaseToAltRecipient ->
                 deserializeCoinbaseToAltRecipient(source, at)
            [] payloadType.value = PayloadType.NakamotoCoinbase ->
                 deserializeNakamotoCoinbase(source, at)
            [] payloadType.value = PayloadType.TenureChange ->
                 deserializeTenureChange(source, at)

(***************************************************************************)
(* stacking/src/utils.ts: Bitcoin address decoding.                        *)
(*                                                                         *)
(* An address string is modelled by what its decoders see in it:           *)
(*   [scheme |-> "base58", version, hash, checksumOk]   a base-58 string   *)
(*   [scheme |-> "segwit", checksum, words]             hrp "1" 5-bit words*)
(*   [scheme |-> "other"]                               anything else      *)
(* The checksum of a segwit string is "bech32", "bech32m" or "invalid":    *)
(* the two checksum constants differ, so no string carries both.           *)
(***************************************************************************)
PoXAddressVersion ==
  [P2PKH |-> 0, P2SH |-> 1, P2SHP2WPKH |-> 2, P2SHP2WSH |-> 3,
   NativeP2WPKH |-> 4, NativeP2WSH |-> 5, NativeP2TR |-> 6]

BitcoinNetworkVersion ==
  [mainnet |-> [P2PKH |-> 0, P2SH |-> 5], testnet |-> [P2PKH |-> 111, P2SH |-> 196]]

\* the mapping with the testnet P2SH version byte missing
btcAddressVersionToLegacyHashMode_noTestnetP2SH(btcAddressVersion) ==
  CASE btcAddressVersion = BitcoinNetworkVersion.mainnet.P2PKH -> Ok(PoXAddressVersion.P2PKH)
    [] btcAddressVersion = BitcoinNetworkVersion.testnet.P2PKH -> Ok(PoXAddressVersion.P2PKH)
    [] btcAddressVersion = BitcoinNetworkVersion.mainnet.P2SH -> Ok(PoXAddressVersion.P2SH)
    [] OTHER -> Throw("Invalid pox address version")

btcAddressVersionToLegacyHashMode(btcAddressVersion) ==
  CASE btcAddressVersion = BitcoinNetworkVersion.mainnet.P2PKH -> Ok(PoXAddressVersion.P2PKH)
    [] btcAddressVersion = BitcoinNetworkVersion.testnet.P2PKH -> Ok(PoXAddressVersion.P2PKH)
    [] btcAddressVersion = BitcoinNetworkVersion.mainnet.P2SH -> Ok(PoXAddressVersion.P2SH)
    [] btcAddressVersion = BitcoinNetworkVersion.testnet.P2SH -> Ok(PoXAddressVersion.P2SH)
    [] OTHER -> Throw("Invalid pox address version")

\* The switch statement compares its operand with each case by ===.  The
\* operand and the cases are array literals, each a newly made object, and
\* === on objects is identity: no case is ever equal to the operand.
SwitchCaseMatches(operand, caseValue) == FALSE

nativeAddressToSegwitVersion(witnessVersion, dataLength) ==
  LET operand == << witnessVersion, dataLength >>
  IN IF SwitchCaseMatches(operand, << 0, 20 >>) THEN Ok(PoXAddressVersion.NativeP2WPKH)
     ELSE IF SwitchCaseMatches(operand, << 0, 32 >>) THEN Ok(PoXAddressVersion.NativeP2WSH)
     ELSE IF SwitchCaseMatches(operand, << 1, 32 >>) THEN Ok(PoXAddressVersion.NativeP2TR)
     ELSE Throw("Invalid native segwit witness version and byte length")

\* base58CheckDecode of @stacks/encryption: the version byte and the hash
base58CheckDecode(btcAddress) ==
  IF btcAddress.scheme = "base58" /\ btcAddress.checksumOk
  THEN Ok([version |-> btcAddress.version, hash |-> btcAddress.hash])
  ELSE Throw("Invalid base58check")

\* the bits of a sequence of w-bit words, most significant bit first
WordBits(words, w) ==
  [i \in 1 .. (w * Len(words)) |->
     (words[(i - 1) \div w + 1] \div (2 ^ (w - 1 - ((i - 1) % w)))) % 2]

RECURSIVE BitsValue(_)
BitsValue(bits) ==
  IF bits = << >> THEN 0 ELSE 2 * BitsValue(Take(bits, Len(bits) - 1)) + bits[Len(bits)]

\* toWords of @scure/base: 8-bit groups to 5-bit groups, zero-padded
toWords(bytes) ==
  LET bits == WordBits(bytes, 8)
      n == (Len(bits) + 4) \div 5
      padded == bits \o Fill(5 * n - Len(bits), 0)
  IN [i \in 1 .. n |-> BitsValue(SubSeq(padded, 5 * i - 4, 5 * i))]

\* fromWords of @scure/base: 5-bit groups to bytes; the bits left over must
\* be fewer than 5 and all zero
fromWords(words) ==
  LET bits == WordBits(words, 5)
      n == Len(bits) \div 8
      rest == Drop(bits, 8 * n)
  IN IF Len(rest) >= 5 THEN Throw("Excess padding")
     ELSE IF \E i \in 1 .. Len(rest) : rest[i] # 0 THEN Throw("Non-zero padding")
     ELSE Ok([i \in 1 .. n |-> BitsValue(SubSeq(bits, 8 * i - 7, 8 * i))])

\* bech32.decode / bech32m.decode of @scure/base: the words of a string whose
\* checksum is the one of the encoding
segwitWords(btcAddress, encoding) ==
  IF btcAddress.scheme = "segwit" /\ btcAddress.checksum = encoding
  THEN Ok(btcAddress.words)
  ELSE Throw("Invalid checksum")

\* words[0] of an empty array is undefined, which compares false with > 0 and == 0
WitnessVersionOf(words) == IF words = << >> THEN Undefined ELSE Num(words[1])

\* bech32Decode accepting every witness version
bech32Decode_anyVersion(btcAddress) ==
  LET decoded == segwitWords(btcAddress, "bech32")
      data == fromWords(Drop(decoded.value, 1))
  IN IF ~decoded.ok THEN decoded
     ELSE IF ~data.ok THEN data
     ELSE Ok([witnessVersion |-> WitnessVersionOf(decoded.value), data |-> data.value])

bech32Decode(btcAddress) ==
  LET decoded == segwitWords(btcAddress, "bech32")
      witnessVersion == WitnessVersionOf(decoded.value)
      data == fromWords(Drop(decoded.value, 1))
  IN IF ~decoded.ok THEN decoded
     ELSE IF witnessVersion # Undefined /\ witnessVersion.number > 0
          THEN Throw("Addresses with a witness version >= 1 should be encoded in bech32m")
     ELSE IF ~data.ok THEN data
     ELSE Ok([witnessVersion |-> witnessVersion, data |-> data.value])

bech32MDecode(btcAddress) ==
  LET decoded == segwitWords(btcAddress, "bech32m")
      witnessVersion == WitnessVersionOf(decoded.value)
      data == fromWords(Drop(decoded.value, 1))
  IN IF ~decoded.ok THEN decoded
     ELSE IF witnessVersion # Undefined /\ witnessVersion.number = 0
          THEN Throw("Addresses with witness version 1 should be encoded in bech32")
     ELSE IF ~data.ok THEN data
     ELSE Ok([witnessVersion |-> witnessVersion, data |-> data.value])

nativeSegwitDecode(btcAddress) ==
  IF bech32Decode(btcAddress).ok THEN bech32Decode(btcAddress)
  ELSE IF bech32MDecode(btcAddress).ok THEN bech32MDecode(btcAddress)
  ELSE Throw("not a valid bech32/bech32m address")

\* new InvalidAddressError(address, innerError): an error is named by its
\* message; the attempts made are kept with it
InvalidAddressError(address, innerError, attempts) ==
  [ok |-> FALSE, error |-> "InvalidAddressError", value |-> << >>,
   address |-> address, innerError |-> innerError, attempts |-> attempts]

\* a result of decodeBtcAddress, with the decodings it attempted, in order
Decoded(version, data, attempts) ==
  [ok |-> TRUE, error |-> "", value |-> [version |-> version, data |-> data],
   attempts |-> attempts]

\* decodeBtcAddress with the two try blocks in the other order
decodeBtcAddress_segwitFirst(btcAddress) ==
  LET b58 == base58CheckDecode(btcAddress)
      legacy == btcAddressVersionToLegacyHashMode(b58.value.version)
      b32 == nativeSegwitDecode(btcAddress)
      native == nativeAddressToSegwitVersion(b32.value.witnessVersion, Len(b32.value.data))
  IN IF b32.ok /\ native.ok
     THEN Decoded(native.value, b32.value.data, << "segwit" >>)
     ELSE IF ~b58.ok THEN InvalidAddressError(btcAddress, b58.error, << "segwit", "base58" >>)
     ELSE IF ~legacy.ok
          THEN InvalidAddressError(btcAddress, legacy.error, << "segwit", "base58" >>)
     ELSE Decoded(legacy.value, b58.value.hash, << "segwit", "base58" >>)

\* the two try blocks of decodeBtcAddress on what the decoders returned
DecodeOutcome(btcAddress, b58, legacy, b32, native) ==
  IF b58.ok /\ legacy.ok
  THEN Decoded(legacy.value, b58.value.hash, << "base58" >>)
  ELSE IF ~b32.ok
       THEN InvalidAddressError(btcAddress, b32.error, << "base58", "segwit" >>)
  ELSE IF ~native.ok
       THEN InvalidAddressError(btcAddress, native.error, << "base58", "segwit" >>)
  ELSE Decoded(native.value, b32.value.data, << "base58", "segwit" >>)

DecodeAttempts(btcAddress, b58, b32) ==
  DecodeOutcome(btcAddress, b58, btcAddressVersionToLegacyHashMode(b58.value.version), b32,
                nativeAddressToSegwitVersion(b32.value.witnessVersion, Len(b32.value.data)))

decodeBtcAddress(btcAddress) ==
  DecodeAttempts(btcAddress, base58CheckDecode(btcAddress), nativeSegwitDecode(btcAddress))

\* base58CheckEncode of @stacks/encryption: the string that base58CheckDecode
\* reads back as the version byte and the hash
base58CheckEncode(version, hash) ==
  [scheme |-> "base58", version |-> version % 256, hash |-> hash, checksumOk |-> TRUE]

\* the version is a number, or a byte array whose first byte is the version
getBTCAddress(version, checksum) ==
  LET versionNumber == IF "number" \in DOMAIN version THEN version.number
                       ELSE version.bytes[1]
  IN base58CheckEncode(versionNumber, checksum)

bufferCV(buffer) == [type |-> ClarityType.Buffer, buffer |-> buffer]

tupleCV(data) == [type |-> ClarityType.Tuple, data |-> data]

\* BigInt(n) of a number that is a natural below 256
BigIntOfNumber(n) == Big(FALSE, StripZeros(<< n >>))

bigIntToBytes(value, length) == intToBytes(IntOf(value), FALSE, length)

concatBytes(a, b) == a \o b

\* rightPad that cuts a longer array down to minLength
rightPad_exact(array, minLength) ==
  IF Len(array) >= minLength THEN Take(array, minLength)
  ELSE concatBytes(array, Fill(minLength - Len(array), 0))

rightPad(array, minLength) ==
  IF Len(array) >= minLength THEN array
  ELSE concatBytes(array,
                   hexToBytes(Fill(2 * (IF minLength - Len(array) > 0
                                        THEN minLength - Len(array) ELSE 0), 0)))

\* the tuple of a decoded address
PoxTupleOf(decoded) ==
  IF ~decoded.ok THEN decoded
  ELSE Ok(tupleCV([version |-> bufferCV(bigIntToBytes(BigIntOfNumber(decoded.value.version), 1)),
                   hashbytes |-> bufferCV(rightPad(decoded.value.data, 32))]))

poxAddressToTuple(poxAddress) == PoxTupleOf(decodeBtcAddress(poxAddress))

(***************************************************************************)
(* The message-signing codec: encryption/src/messageSignature.ts.          *)
(* A string is a sequence of code points; utf8ToBytes of @stacks/common    *)
(* encodes each one in one, two or three bytes.  The variable-length       *)
(* integer of ./varuint has a self-describing width: one byte below 253,   *)
(* else a marker byte (253, 254) and a 2- or 4-byte little-endian value.   *)
(***************************************************************************)
utf8OfCodePoint(c) ==
  IF c < 128 THEN << c >>
  ELSE IF c < 2048 THEN << 192 + (c \div 64), 128 + (c % 64) >>
  ELSE << 224 + (c \div 4096), 128 + ((c \div 64) % 64), 128 + (c % 64) >>

RECURSIVE utf8ToBytes(_)
utf8ToBytes(str) ==
  IF Len(str) = 0 THEN << >>
  ELSE IF Len(str) = 1 THEN utf8OfCodePoint(str[1])
  ELSE LET half == Len(str) \div 2
       IN utf8ToBytes(SubSeq(str, 1, half))
            \o utf8ToBytes(SubSeq(str, half + 1, Len(str)))

encode(n) ==
  IF n < 253 THEN << n >>
  ELSE IF n <= 65535 THEN << 253, n % 256, n \div 256 >>
  ELSE << 254, n % 256, (n \div 256) % 256, (n \div 65536) % 256,
          (n \div 16777216) % 256 >>

decode(bytes) ==
  LET first == bytes[1]
  IN IF first < 253 THEN first
     ELSE IF first = 253 THEN bytes[2] + 256 * bytes[3]
     ELSE IF bytes[5] >= 128 THEN 2147483647
     ELSE bytes[2] + 256 * bytes[3] + 65536 * bytes[4] + 16777216 * bytes[5]

encodingLength(n) ==
  IF n < 253 THEN 1 ELSE IF n <= 65535 THEN 3 ELSE 5

sha256(bytes) == [sha256 |-> bytes]

chainPrefix ==
  << 24, 83, 116, 97, 99, 107, 115, 32, 77, 101, 115, 115, 97, 103, 101, 32,
     83, 105, 103, 110, 105, 110, 103, 58, 10 >>

PrefixOrDefault(prefix) ==
  IF prefix = Undefined THEN chainPrefix ELSE prefix.str

encodeMessage_noLength(message, prefix) ==
  LET messageBytes ==
        IF IsString(message) THEN utf8ToBytes(message.str) ELSE message.bytes
  IN concatBytes(utf8ToBytes(PrefixOrDefault(prefix)), messageBytes)

encodeMessage(message, prefix) ==
  LET messageBytes ==
        IF IsString(message) THEN utf8ToBytes(message.str) ELSE message.bytes
      encodedLength == encode(Len(messageBytes))
  IN concatBytes(concatBytes(utf8ToBytes(PrefixOrDefault(prefix)),
                             encodedLength), messageBytes)

hashMessage_unprefixed(message, prefix) == sha256(utf8ToBytes(message.str))

hashMessage(message, prefix) == sha256(encodeMessage(message, prefix))

decodeMessage_oneByteLength(encodedMessage, prefix) ==
  Drop(Drop(encodedMessage, Len(utf8ToBytes(PrefixOrDefault(prefix)))), 1)

decodeMessage(encodedMessage, prefix) ==
  LET prefixByteLength == Len(utf8ToBytes(PrefixOrDefault(prefix)))
      messageWithoutChainPrefix == Drop(encodedMessage, prefixByteLength)
      decoded == decode(messageWithoutChainPrefix)
      varIntLength == encodingLength(decoded)
  IN Drop(messageWithoutChainPrefix, varIntLength)

(***************************************************************************)
(* The stacking client: stacking/src/index.ts (StackingClient).            *)
(***************************************************************************)
\* getFee of @stacks/transactions: the fee of the spending condition, here
\* a small number of microstacks
getFee(auth) == auth.spendingCondition.fee

\* array[0] = value, on an array that may be empty
SetFirst(array, value) ==
  IF Len(array) = 0 THEN << value >> ELSE [array EXCEPT ![1] = value]

\* the transaction is changed where it is: the result is the same object
modifyLockTxFee(tx, amountMicroStx) ==
  LET fee == getFee(tx.auth)
      locked == uintCV(IntOf(BigAdd(intToBigInt(amountMicroStx, FALSE), 0 - fee)))
  IN IF ~locked.ok THEN locked
     ELSE IF "functionArgs" \notin DOMAIN tx.payload THEN Throw("TypeError")
     ELSE Ok([tx EXCEPT !.payload.functionArgs = SetFirst(@, locked.value)])

\* a contract identifier is kept as its parts: the address before the dot
\* (and whether validateStacksAddress accepts it) and the name after it
parseContractId(contract) ==
  IF contract.addressValid /\ contract.name \in {"pox", "pox-2"}
    THEN Ok(<< contract.address, contract.name >>)
    ELSE Throw("Stacking contract ID is malformed")

\* the truth value JavaScript gives an optional integer in a condition
Truthy(value) ==
  /\ "undefined" \notin DOMAIN value
  /\ value # Num(0)
  /\ value # IntOf(Big(FALSE, << >>))

\* txOptions, with the nonce when the condition lets it in
ContractCallOptions(parsed, functionName, functionArgs, nonce) ==
  LET txOptions == [contractAddress |-> parsed[1], contractName |-> parsed[2],
                    functionName |-> functionName, functionArgs |-> functionArgs,
                    validateWithAbi |-> TRUE, anchorMode |-> "Any"]
  IN IF Truthy(nonce)
       THEN [contractAddress |-> parsed[1], contractName |-> parsed[2],
             functionName |-> functionName, functionArgs |-> functionArgs,
             validateWithAbi |-> TRUE, anchorMode |-> "Any", nonce |-> nonce]
       ELSE txOptions

\* the body of getDelegateStackOptions after its arguments were converted
DelegateStackOptionsOf(o, address, parsed, amount, height, cycles) ==
  IF ~address.ok THEN Throw(address.error)
  ELSE IF ~parsed.ok THEN parsed
  ELSE IF ~amount.ok THEN amount
  ELSE IF ~height.ok THEN height
  ELSE IF ~cycles.ok THEN cycles
  ELSE Ok(ContractCallOptions(
            parsed.value, "delegate-stack-stx",
            << o.stacker, amount.value, address.value, height.value,
               cycles.value >>, o.nonce))

getDelegateStackOptions(o) ==
  DelegateStackOptionsOf(o, poxAddressToTuple(o.poxAddress), parseContractId(o.contract),
                         uintCV(o.amountMicroStx), uintCV(o.burnBlockHeight), uintCV(o.cycles))

\* the body of the two builders that take an address and one number
DelegateStackChangeOptionsOf(o, functionName, address, parsed, number) ==
  IF ~address.ok THEN Throw(address.error)
  ELSE IF ~parsed.ok THEN parsed
  ELSE IF ~number.ok THEN number
  ELSE Ok(ContractCallOptions(
            parsed.value, functionName,
            << o.stacker, address.value, number.value >>, o.nonce))

getDelegateStackExtendOptions(o) ==
  DelegateStackChangeOptionsOf(o, "delegate-stack-extend", poxAddressToTuple(o.poxAddress),
                               parseContractId(o.contract), uintCV(o.extendCount))

getDelegateStackIncreaseOptions(o) ==
  DelegateStackChangeOptionsOf(o, "delegate-stack-increase", poxAddressToTuple(o.poxAddress),
                               parseContractId(o.contract), uintCV(o.increaseBy))

RECURSIVE InsertByActivation(_, _)
\* version put after the versions activated no later than it
InsertByActivation(sorted, version) ==
  IF sorted = << >> THEN << version >>
  ELSE IF Head(sorted).activation_burnchain_block_height <= version.activation_burnchain_block_height
       THEN << Head(sorted) >> \o InsertByActivation(Tail(sorted), version)
       ELSE << version >> \o sorted

RECURSIVE SortByActivation(_)
\* [...contract_versions].sort((a, b) => a.activation - b.activation): the
\* sort is stable
SortByActivation(versions) ==
  IF versions = << >> THEN << >>
  ELSE InsertByActivation(SortByActivation(SubSeq(versions, 1, Len(versions) - 1)), versions[Len(versions)])

\* isPox2Configured: the text fetched from the data variable 'configured' of
\* PoX-2 is '{"data":"0x03"}'
getPoxOperationInfo(poxInfo, isPox2Configured) ==
  IF \/ ~Truthy(poxInfo.current_burnchain_block_height)
     \/ "undefined" \in DOMAIN poxInfo.contract_versions
     \/ Len(poxInfo.contract_versions.versions) <= 1
  THEN Ok([period |-> 1])
  ELSE LET sorted == SortByActivation(poxInfo.contract_versions.versions)
           pox1 == sorted[1]
           pox2 == sorted[2]
           burnBlocksUntilPox2 == pox2.activation_burnchain_block_height - poxInfo.current_burnchain_block_height.number
       IN IF ~isPox2Configured THEN Ok([period |-> 1, burnBlocksUntilPox2 |-> burnBlocksUntilPox2])
          ELSE IF poxInfo.contract_id = pox1.contract_id
               THEN Ok([period |-> 2, burnBlocksUntilPox2 |-> burnBlocksUntilPox2])
          ELSE IF poxInfo.contract_id = pox2.contract_id THEN Ok([period |-> 3])
          ELSE Throw("Could not determine PoX Operation Period")

(***************************************************************************)
(* utils.js: isLaterVersion.  A string is its sequence of code points.     *)
(***************************************************************************)
NaN == [nan |-> TRUE]

IsDigit(c) == c >= 48 /\ c <= 57

RECURSIVE split(_, _)
\* String.prototype.split on a one-character separator
split(str, separator) ==
  IF \A i \in 1 .. Len(str) : str[i] # separator THEN << str >>
  ELSE LET at == CHOOSE i \in 1 .. Len(str) :
                   str[i] = separator /\ \A j \in 1 .. (i - 1) : str[j] # separator
       IN << SubSeq(str, 1, at - 1) >> \o split(Drop(str, at), separator)

RECURSIVE DigitsValue(_, _)
DigitsValue(str, value) ==
  IF str = << >> \/ ~IsDigit(Head(str)) THEN value
  ELSE DigitsValue(Tail(str), 10 * value + (Head(str) - 48))

\* parseInt(x, 10) of a string without sign or blanks: the number its
\* leading digits spell, NaN when it has none
parseInt(str) ==
  IF str = << >> \/ ~IsDigit(Head(str)) THEN NaN ELSE Num(DigitsValue(str, 0))

\* a[index] < b[index] in JavaScript, index counted from 0: false when an
\* element is missing (undefined) or NaN
ElementLess(a, b, index) ==
  /\ index + 1 <= Len(a)
  /\ index + 1 <= Len(b)
  /\ "number" \in DOMAIN a[index + 1]
  /\ "number" \in DOMAIN b[index + 1]
  /\ a[index + 1].number < b[index + 1].number

RECURSIVE isLaterVersionLoop(_, _, _, _, _)
\* the for loop: it runs over the characters of v2 and pushes onto v2tuple
isLaterVersionLoop(index, v1, v2, v1tuple, v2tuple) ==
  IF ~(index < Len(v2)) THEN TRUE
  ELSE LET pushed == IF index >= Len(v1) THEN v2tuple \o << Num(0) >> ELSE v2tuple
       IN IF ElementLess(v1tuple, pushed, index) THEN FALSE
          ELSE isLaterVersionLoop(index + 1, v1, v2, v1tuple, pushed)

isLaterVersion(v1, v2) ==
  LET v1tuple == [i \in 1 .. Len(split(v1, 46)) |-> parseInt(split(v1, 46)[i])]
      v2tuple == [i \in 1 .. Len(split(v2, 46)) |-> parseInt(split(v2, 46)[i])]
  IN isLaterVersionLoop(0, v1, v2, v1tuple, v2tuple)

(***************************************************************************)
(* The inputs the calls are made with.                                     *)
(***************************************************************************)
Deltas == (0 - IntDelta) .. IntDelta

\* the limits the calls are tried around, by name: 0, 2^64 - 1, 2^127 - 1,
\* -2^127 and 2^128 - 1
LimitValue(base) ==
  CASE base = "ZERO" -> BigZero
    [] base = "MAX_U64" -> BigPred(BigPow256(8))
    [] base = "MAX_I128" -> BigPred(Big(FALSE, << 128 >> \o Fill(15, 0)))
    [] base = "MIN_I128" -> Big(TRUE, << 128 >> \o Fill(15, 0))
    [] base = "MAX_U128" -> BigPred(BigPow256(16))

IntBases == {"ZERO", "MAX_U64", "MAX_I128", "MIN_I128", "MAX_U128"}

AmountBases == {"ZERO", "MAX_U64"}

Principals ==
  { standardPrincipalCV(22, Ramp(20, 1)),
    contractPrincipalCV(26, Ramp(20, 50), << 112, 111, 120 >>) }

Memos == {Undefined, Str(<< >>), Str(Ramp(5, 97)), Str(Ramp(MEMO_MAX_LENGTH_BYTES, 65)),
          Str(Ramp(MEMO_MAX_LENGTH_BYTES + 1, 65))}

ContractAddresses == {[version |-> 22, hash160 |-> Ramp(20, 200)]}

Names == {Str(<< 97 >>), Str(Fill(MAX_STRING_LENGTH_BYTES, 98)),
          Str(Fill(MAX_STRING_LENGTH_BYTES + 1, 98))}

CodeBodies == {Str(<< >>), Str(Ramp(5, 40))}

ArgValues ==
  { trueCV, uintCV(IntOf(BigSucc(LimitValue("MAX_U64")))).value,
    intCV(IntOf(Big(TRUE, << 1 >>))).value, someCV(standardPrincipalCV(22, Ramp(20, 1))) }

RECURSIVE SeqsUpTo(_, _)
\* the sequences over S of length at most n
SeqsUpTo(S, n) ==
  IF n = 0 THEN {<< >>}
  ELSE SeqsUpTo(S, n - 1) \cup {Append(q, x) : q \in SeqsUpTo(S, n - 1), x \in S}

ArgLists == SeqsUpTo(ArgValues, MaxArgs)

CoinbaseBuffers == {Ramp(COINBASE_BYTES_LENGTH, 0), Ramp(COINBASE_BYTES_LENGTH - 1, 0)}

VrfProofs == {Ramp(VRF_PROOF_BYTES_LENGTH, 100), Ramp(VRF_PROOF_BYTES_LENGTH + 1, 100)}

\* hex strings of n bytes
HexOf(n, b) == bytesToHex(Ramp(n, b))

TenureHashes == {HexOf(20, 1), HexOf(19, 1), HexOf(21, 1)}

BlockCounts == {0, 1, 65537}

\* a segwit string of a witness version and a witness program; with padding
\* "extra" one more 5-bit word follows the program
SegwitString(checksum, witnessVersion, program, padding) ==
  [scheme |-> "segwit", checksum |-> checksum,
   words |-> << witnessVersion >> \o toWords(program)
               \o (IF padding = "extra" THEN << 1 >> ELSE << >>)]

WitnessVersions == {0, 1, 2, 16}

WitnessPrograms == {Ramp(20, 7), Ramp(32, 9), Ramp(2, 3), Ramp(33, 250)}

Base58Strings ==
  {[scheme |-> "base58", version |-> v, hash |-> Ramp(20, 11), checksumOk |-> c] :
     v \in {0, 5, 111, 196, 1}, c \in BOOLEAN}

VersionBytes == 0 .. 255

Hash160s == {Ramp(20, 11), Fill(20, 0), Fill(20, 255)}

PaddedArrays == {<< >>, Ramp(20, 1), Ramp(31, 1), Ramp(32, 1), Ramp(33, 1)}

\* message lengths on both sides of the one-byte limits of the length prefix
MessageLengths == {0, 1, 127, 128, 252, 253, 254, 300}

ByteMessages ==
  {Ramp(n, 65) : n \in MessageLengths} \cup {<< 0 >>, << 253, 0, 1 >>}

StringMessages == {<< >>, << 104, 105 >>, << 233 >>, << 8364 >>, Fill(253, 97)}

Messages == {BytesOf(b) : b \in ByteMessages} \cup {Str(s) : s \in StringMessages}

Prefixes == {Undefined, Str(<< >>), Str(<< 233, 58 >>), Str(<< 66, 105, 116 >>)}

\* amounts to lock and fees: the fee below, equal to and above the amount
LockAmounts == {IntOf(BigIntOfNumber(0)), IntOf(BigIntOfNumber(7))}

Fees == {0, 1}

\* nonces: none, the numbers 0 and 1, the bigints 0n and 5n, a byte array
Nonces ==
  {Undefined, Num(0), Num(1), IntOf(BigIntOfNumber(0)), IntOf(BigIntOfNumber(5)),
   BytesOf(<< 0 >>)}

ContractIds ==
  {[address |-> "SP000000000000000000002Q6VF78", addressValid |-> TRUE, name |-> n] :
     n \in {"pox", "pox-2", "pox-9"}}

Stacker == standardPrincipalCV(22, Ramp(20, 1))

PoxAddress == getBTCAddress(Num(0), Ramp(20, 11))

\* what a node reports: burn heights, lists of contract versions and the
\* active contract
BurnHeights == {Undefined, Num(0), Num(150)}

ContractVersion(id, height) == [contract_id |-> id, activation_burnchain_block_height |-> height]

Pox1Version == ContractVersion("pox", 100)

Pox2Version == ContractVersion("pox-2", 200)

Pox3Version == ContractVersion("pox-3", 300)

ContractVersionLists ==
  {Undefined} \cup
  {[versions |-> v] : v \in {<< >>, << Pox1Version >>, << Pox1Version, Pox2Version >>,
                             << Pox2Version, Pox1Version >>,
                             << Pox1Version, Pox2Version, Pox3Version >>,
                             << Pox3Version, Pox2Version, Pox1Version >>}}

PoxInfos ==
  [current_burnchain_block_height : BurnHeights, contract_versions : ContractVersionLists,
   contract_id : {"pox", "pox-2", "pox-3"}]

\* versions of up to MaxVersionParts components
MaxVersionParts == 3

VersionComponents == {0, 1, 10}

VersionTuples == SeqsUpTo(VersionComponents, MaxVersionParts) \ {<< >>}

\* the decimal digits of a number below 100
Decimal(n) == IF n < 10 THEN << 48 + n >> ELSE << 48 + (n \div 10), 48 + (n % 10) >>

RECURSIVE Dotted(_)
\* the version string of a tuple of components
Dotted(tuple) ==
  IF Len(tuple) = 1 THEN Decimal(tuple[1])
  ELSE Decimal(tuple[1]) \o << 46 >> \o Dotted(Tail(tuple))

\* bytes put in the place of a tag: the enum values and some others
TagBytes == 0 .. 10 \cup {255}

(***************************************************************************)
(* The state: the payload being built, serialized and decoded, and the     *)
(* last call of a constructor or decoder that keeps no state.              *)
(***************************************************************************)
VARIABLES
  stage,     \* "idle", "created", "rejected", "serialized" or "decoded"
  created,   \* what the last create*Payload call returned or threw
  wire,      \* the buffer written by serializePayloadBytes, or changed after it
  wireKind,  \* "none", "serialized", "truncated", "retagged" or "followed"
  decoded,   \* what deserializePayloadBytes returned or threw on wire
  call,      \* the last call of a pure function and its result
  signer,    \* "sound", or "noRecoveryId" when signSync yields no recovery id
  signed,    \* the first signing call made and what it returned
  draws,     \* how many values were drawn from the platform's random source
  client,    \* the StackingClient operation in progress and how far it is
  location,  \* the authResponse parameter of the page's URL, or "none"
  storage,   \* the user data kept in localStorage, or NoItem
  promises   \* the handlePendingSignIn calls made and their promises

vars == << stage, created, wire, wireKind, decoded, call, signer, signed, draws, client, location, storage, promises >>

NoCall == [fn |-> "none"]

NoResult == [none |-> TRUE]

(***************************************************************************)
(* The key and signature subsystem: transactions/src/keys.ts.              *)
(*                                                                         *)
(* @noble/secp256k1 is modelled by a small invertible scheme over byte     *)
(* strings with the properties the library documents: a public point is a  *)
(* function of the private scalar alone; a signature (r, s) is a function  *)
(* of the scalar and the digest (RFC 6979), and of the random source only  *)
(* when the caller asks for extra entropy; with canonical the high half of *)
(* the s values is mirrored into the low half and the recovery id follows; *)
(* and recovery from (digest, r, s, recovery id) gives the signer's point. *)
(***************************************************************************)
HexString(hex) == [kind |-> "string", hex |-> hex]

PRIVATE_KEY_COMPRESSED_LENGTH == 33

PubKeyEncoding == [Compressed |-> 0, Uncompressed |-> 1]

\* privateKeyToBytes of @stacks/common: the bytes of a hex string or of a buffer
privateKeyToBytes(privateKey) ==
  IF privateKey.kind = "string" THEN hexToBytes(privateKey.hex)
  ELSE privateKey.bytes

\* the curve point of a scalar
PointOf(d) ==
  LET x == [i \in 1 .. 32 |-> (d[i] + 29 * i + Len(d)) % 256]
      y == [i \in 1 .. 32 |-> (3 * x[i] + d[33 - i] + i) % 256]
  IN [x |-> x, y |-> y]

\* Point.toRawBytes: 02/03 and x when compressed, 04, x and y when not
PointToBytes(point, isCompressed) ==
  IF isCompressed THEN << 2 + (point.y[32] % 2) >> \o point.x
  ELSE << 4 >> \o point.x \o point.y

\* Point.toHex
PointToHex(point, isCompressed) == bytesToHex(PointToBytes(point, isCompressed))

nobleGetPublicKey(privateKey, isCompressed) ==
  PointToBytes(PointOf(privateKey), isCompressed)

Mirror(s) == [i \in 1 .. Len(s) |-> 255 - s[i]]

IsLowS(s) == s[1] < 128

\* signSync: the DER signature is kept as its two numbers
signSync(messageHash, privateKey, opts) ==
  LET h == hexToBytes(messageHash)
      extra == IF "extraEntropy" \in DOMAIN opts THEN draws ELSE 0
      r == [i \in 1 .. 32 |->
              (5 * privateKey[i] + 3 * h[i] + 7 * i + extra) % 256]
      s == [i \in 1 .. 32 |-> (privateKey[i] + h[i] + r[i]) % 256]
      flip == opts.canonical /\ ~IsLowS(s)
      id == IF flip THEN 1 - (r[32] % 2) ELSE r[32] % 2
  IN [rawSignature |-> [r |-> r, s |-> IF flip THEN Mirror(s) ELSE s],
      recoveryId |-> IF opts.recovered /\ signer = "sound"
                       THEN [number |-> id] ELSE Undefined]

\* Point.fromSignature
PointFromSignature(messageHash, signature, recoveryId) ==
  LET h == hexToBytes(messageHash)
      r == signature.r
      s == IF recoveryId = r[32] % 2 THEN signature.s ELSE Mirror(signature.s)
  IN PointOf([i \in 1 .. 32 |-> (s[i] + 512 - h[i] - r[i]) % 256])

\* Signature.fromHex(rawSignature).toCompactHex()
toCompactHex(rawSignature) == bytesToHex(rawSignature.r \o rawSignature.s)

intToHex(integer, byteLength) ==
  bytesToHex(FixWidth(StripZeros(<< integer >>), byteLength))

parseRecoverableSignatureVrs(signature) ==
  [recoveryId |-> hexToBytes(Take(signature, 2))[1],
   r |-> SubSeq(signature, 3, 66),
   s |-> Drop(signature, 66)]

signatureVrsToRsv(signature) == Drop(signature, 2) \o Take(signature, 2)

signatureRsvToVrs(signature) ==
  Drop(signature, Len(signature) - 2) \o Take(signature, Len(signature) - 2)

createMessageSignature(signature) ==
  [type |-> "MessageSignature", data |-> signature]

publicKeyFromSignatureVrs_defaultUncompressed(messageHash, messageSignature, pubKeyEncoding) ==
  LET encoding == IF "undefined" \in DOMAIN pubKeyEncoding
                    THEN PubKeyEncoding.Uncompressed
                    ELSE pubKeyEncoding.number
      parsedSignature == parseRecoverableSignatureVrs(messageSignature.data)
      signature == [r |-> hexToBytes(parsedSignature.r),
                    s |-> hexToBytes(parsedSignature.s)]
      point == PointFromSignature(messageHash, signature,
                                  parsedSignature.recoveryId)
  IN PointToHex(point, encoding = PubKeyEncoding.Compressed)

publicKeyFromSignatureVrs(messageHash, messageSignature, pubKeyEncoding) ==
  LET encoding == IF "undefined" \in DOMAIN pubKeyEncoding
                    THEN PubKeyEncoding.Compressed
                    ELSE pubKeyEncoding.number
      parsedSignature == parseRecoverableSignatureVrs(messageSignature.data)
      signature == [r |-> hexToBytes(parsedSignature.r),
                    s |-> hexToBytes(parsedSignature.s)]
      point == PointFromSignature(messageHash, signature,
                                  parsedSignature.recoveryId)
      compressed == encoding = PubKeyEncoding.Compressed
  IN PointToHex(point, compressed)

publicKeyFromSignatureRsv(messageHash, messageSignature, pubKeyEncoding) ==
  publicKeyFromSignatureVrs(
    messageHash,
    [messageSignature EXCEPT !.data = signatureRsvToVrs(messageSignature.data)],
    pubKeyEncoding)

privateKeyToHex(publicKey) ==
  IF publicKey.kind = "string" THEN publicKey.hex ELSE bytesToHex(publicKey.bytes)

publicKeyToHex(publicKey) == privateKeyToHex(publicKey)

privateKeyIsCompressed(privateKey) ==
  LET length == IF privateKey.kind = "string" THEN Len(privateKey.hex) \div 2
                ELSE Len(privateKey.bytes)
  IN length = PRIVATE_KEY_COMPRESSED_LENGTH

publicKeyIsCompressed(publicKey) ==
  Take(publicKeyToHex(publicKey), 2) # << 0, 4 >>

privateKeyToPublic_wholeKey(privateKey) ==
  LET bytes == privateKeyToBytes(privateKey)
      isCompressed == privateKeyIsCompressed(BytesOf(bytes))
  IN bytesToHex(nobleGetPublicKey(bytes, isCompressed))

privateKeyToPublic(privateKey) ==
  LET bytes == privateKeyToBytes(privateKey)
      isCompressed == privateKeyIsCompressed(BytesOf(bytes))
  IN bytesToHex(nobleGetPublicKey(Take(bytes, 32), isCompressed))

signWithKey_defaultRecoveryId(privateKey, messageHash) ==
  LET bytes == privateKeyToBytes(privateKey)
      signed0 == signSync(messageHash, Take(bytes, 32),
                          [canonical |-> TRUE, recovered |-> TRUE])
      recoveryId == IF "undefined" \in DOMAIN signed0.recoveryId THEN 0
                    ELSE signed0.recoveryId.number
  IN Ok(createMessageSignature(
          intToHex(recoveryId, 1) \o toCompactHex(signed0.rawSignature)))

signWithKey_extraEntropy(privateKey, messageHash) ==
  LET bytes == privateKeyToBytes(privateKey)
      signed0 == signSync(messageHash, Take(bytes, 32),
                          [canonical |-> TRUE, recovered |-> TRUE,
                           extraEntropy |-> TRUE])
  IN IF "undefined" \in DOMAIN signed0.recoveryId
       THEN Throw("No signature recoveryId received")
       ELSE Ok(createMessageSignature(
                 intToHex(signed0.recoveryId.number, 1)
                   \o toCompactHex(signed0.rawSignature)))

signWithKey_lastBytes(privateKey, messageHash) ==
  LET bytes == privateKeyToBytes(privateKey)
      signed0 == signSync(messageHash, Drop(bytes, Len(bytes) - 32),
                          [canonical |-> TRUE, recovered |-> TRUE])
  IN IF "undefined" \in DOMAIN signed0.recoveryId
       THEN Throw("No signature recoveryId received")
       ELSE Ok(createMessageSignature(
                 intToHex(signed0.recoveryId.number, 1)
                   \o toCompactHex(signed0.rawSignature)))

signWithKey(privateKey, messageHash) ==
  LET bytes == privateKeyToBytes(privateKey)
      signed0 == signSync(messageHash, Take(bytes, 32),
                          [canonical |-> TRUE, recovered |-> TRUE])
      rawSignature == signed0.rawSignature
      recoveryId == signed0.recoveryId
  IN IF "undefined" \in DOMAIN recoveryId
       THEN Throw("No signature recoveryId received")
       ELSE LET recoveryIdHex == intToHex(recoveryId.number, 1)
                recoverableSignatureString ==
                  recoveryIdHex \o toCompactHex(rawSignature)
            IN Ok(createMessageSignature(recoverableSignatureString))

signMessageHashRsv_sameOrder(messageHash, privateKey) ==
  signWithKey(privateKey, messageHash)

signMessageHashRsv(messageHash, privateKey) ==
  LET messageSignature == signWithKey(privateKey, messageHash)
  IN IF ~messageSignature.ok THEN messageSignature
     ELSE Ok([messageSignature.value EXCEPT
                !.data = signatureVrsToRsv(messageSignature.value.data)])

\* the keys and digests the calls are made with
Scalars == {Ramp(32, 1), Ramp(32, 130)}

PrivateKeys ==
  UNION {{BytesOf(d), BytesOf(d \o << 1 >>), HexString(bytesToHex(d)),
          HexString(bytesToHex(d \o << 1 >>))} : d \in Scalars}

MessageHashes == {bytesToHex(Ramp(32, 40)), bytesToHex(Fill(32, 200))}

Encodings ==
  {Undefined, [number |-> PubKeyEncoding.Compressed],
   [number |-> PubKeyEncoding.Uncompressed]}

Signers == {"sound", "noRecoveryId"}

MaxDraws == 2

\* no StackingClient operation was started, no page was opened
NoOperation == [name |-> "none"]

NoPromise == [outer |-> "none"]

MaxSignIns == 2

\* localStorage.getItem gives null
NoItem == [item |-> "none"]

Elsewhere0 ==
  /\ client = NoOperation
  /\ location = "none"
  /\ storage = NoItem
  /\ promises = [i \in 1 .. MaxSignIns |-> NoPromise]

Init ==
  /\ stage = "idle"
  /\ created = NoResult
  /\ wire = << >>
  /\ wireKind = "none"
  /\ decoded = NoResult
  /\ call = NoCall
  /\ signer = "sound"
  /\ signed = NoCall
  /\ draws = 0
  /\ Elsewhere0

\* the signing library either yields recovery ids or does not
SignInit ==
  /\ stage = "idle"
  /\ created = NoResult
  /\ wire = << >>
  /\ wireKind = "none"
  /\ decoded = NoResult
  /\ call = NoCall
  /\ signer \in Signers
  /\ signed = NoCall
  /\ draws = 0
  /\ Elsewhere0

\* the signing environment is left as it is
Kept == UNCHANGED << signer, signed, draws, client, location, storage, promises >>

\* the buffer and the last results are dropped when a new call starts
Forget ==
  /\ wire' = << >>
  /\ wireKind' = "none"
  /\ decoded' = NoResult
  /\ Kept

StageAfter(result) == IF result.ok THEN "created" ELSE "rejected"

\* nothing is in progress: a constructor or a call can be made
Ready == stage = "idle" /\ call = NoCall

\* each constructor call leaves a new payload, or an exception
CreateTokenTransfer ==
  \E recipient \in Principals, base \in AmountBases, d \in Deltas, memo \in Memos :
    /\ Ready
    /\ created' = createTokenTransferPayload(recipient, IntOf(BigAdd(LimitValue(base), d)),
                                             memo)
    /\ stage' = StageAfter(created')
    /\ call' = NoCall
    /\ Forget

CreateContractCall ==
  \E contractAddress \in ContractAddresses, functionArgs \in ArgLists :
    /\ Ready
    /\ created' = createContractCallPayload(contractAddress, Str(<< 97, 98 >>),
                                            Str(<< 102 >>), functionArgs)
    /\ stage' = StageAfter(created')
    /\ call' = NoCall
    /\ Forget

CreateSmartContract ==
  \E contractName \in Names, codeBody \in CodeBodies,
     clarityVersion \in {Undefined} \cup {Num(v) : v \in ClarityVersionValues} :
    /\ Ready
    /\ created' = createSmartContractPayload(contractName, codeBody, clarityVersion)
    /\ stage' = StageAfter(created')
    /\ call' = NoCall
    /\ Forget

CreatePoison ==
  /\ Ready
  /\ created' = createPoisonPayload
  /\ stage' = StageAfter(created')
  /\ call' = NoCall
  /\ Forget

CreateCoinbase ==
  \E coinbaseBytes \in CoinbaseBuffers, altRecipient \in {Undefined} \cup Principals :
    /\ Ready
    /\ created' = createCoinbasePayload(coinbaseBytes, altRecipient)
    /\ stage' = StageAfter(created')
    /\ call' = NoCall
    /\ Forget

CreateNakamotoCoinbase ==
  \E coinbaseBytes \in CoinbaseBuffers, vrfProof \in VrfProofs,
     recipient \in {noneCV} \cup {someCV(p) : p \in Principals} :
    /\ Ready
    /\ created' = createNakamotoCoinbasePayload(coinbaseBytes, recipient, vrfProof)
    /\ stage' = StageAfter(created')
    /\ call' = NoCall
    /\ Forget

CreateTenureChange ==
  \E tenureHash \in TenureHashes, previousTenureBlocks \in BlockCounts,
     cause \in TenureChangeCauseValues :
    /\ Ready
    /\ created' = createTenureChangePayload(tenureHash, HexOf(20, 30), HexOf(20, 60),
                                            HexOf(32, 90), previousTenureBlocks, cause,
                                            HexOf(20, 130))
    /\ stage' = StageAfter(created')
    /\ call' = NoCall
    /\ Forget

\* modifyLockTxFee on a transaction that holds the payload: what it writes,
\* it writes into the payload itself
ModifyLockTxFee ==
  \E amountMicroStx \in LockAmounts, fee \in Fees :
    /\ stage = "created"
    /\ created' =
         IF modifyLockTxFee([auth |-> [spendingCondition |-> [fee |-> fee]],
                             payload |-> created.value], amountMicroStx).ok
           THEN Ok(modifyLockTxFee(
                     [auth |-> [spendingCondition |-> [fee |-> fee]],
                      payload |-> created.value], amountMicroStx).value.payload)
           ELSE created
    /\ UNCHANGED << stage, wire, wireKind, decoded, call, signer, signed, draws,
               client, location, storage, promises >>

Serialize ==
  /\ stage = "created"
  /\ stage' = "serialized"
  /\ wire' = serializePayloadBytes(created.value)
  /\ wireKind' = "serialized"
  /\ UNCHANGED << created, decoded, call, signer, signed, draws,
               client, location, storage, promises >>

\* the buffer cut short before it is decoded
Truncate ==
  /\ stage = "serialized" /\ wireKind = "serialized"
  /\ \E n \in 0 .. (Len(wire) - 1) : wire' = Take(wire, n)
  /\ wireKind' = "truncated"
  /\ UNCHANGED << stage, created, decoded, call, signer, signed, draws,
               client, location, storage, promises >>

\* the byte of the payload type, of the Clarity version or of the tenure
\* change cause replaced
Retag ==
  /\ stage = "serialized" /\ wireKind = "serialized"
  /\ \E i \in {1, 2, 98}, b \in TagBytes :
       /\ i <= Len(wire)
       /\ i = 2 => wire[1] = PayloadType.VersionedSmartContract
       /\ i = 98 => wire[1] = PayloadType.TenureChange
       /\ wire[i] # b
       /\ wire' = [wire EXCEPT ![i] = b]
  /\ wireKind' = "retagged"
  /\ UNCHANGED << stage, created, decoded, call, signer, signed, draws,
               client, location, storage, promises >>

\* bytes that follow the payload in the same buffer: another payload, or
\* bytes of some other field
Trailers == {<< 3 >>, << 0, 1, 2 >>}

\* the payload is followed by more bytes before it is decoded
AppendTrailer ==
  /\ stage = "serialized" /\ wireKind = "serialized"
  /\ \E trailer \in Trailers : wire' = wire \o trailer
  /\ wireKind' = "followed"
  /\ UNCHANGED << stage, created, decoded, call, signer, signed, draws,
               client, location, storage, promises >>

Deserialize ==
  /\ stage = "serialized"
  /\ stage' = "decoded"
  /\ decoded' = deserializePayloadBytes(wire, 0)
  /\ UNCHANGED << created, wire, wireKind, call, signer, signed, draws,
               client, location, storage, promises >>

\* a call that keeps no state is made between payloads
Idle ==
  /\ stage' = "idle"
  /\ created' = NoResult
  /\ Forget

CallIntCV ==
  \E base \in IntBases, d \in Deltas :
    /\ Ready
    /\ call' = [fn |-> "intCV", base |-> base, d |-> d,
                result |-> intCV(IntOf(BigAdd(LimitValue(base), d)))]
    /\ Idle

CallUintCV ==
  \E base \in IntBases, d \in Deltas :
    /\ Ready
    /\ call' = [fn |-> "uintCV", base |-> base, d |-> d,
                result |-> uintCV(IntOf(BigAdd(LimitValue(base), d)))]
    /\ Idle

CallNativeSegwitDecode ==
  \E checksum \in {"bech32", "bech32m", "invalid"}, witnessVersion \in WitnessVersions,
     program \in WitnessPrograms, padding \in {"exact", "extra"} :
    /\ Ready
    /\ call' = [fn |-> "nativeSegwitDecode", checksum |-> checksum,
                witnessVersion |-> witnessVersion, program |-> program,
                padding |-> padding,
                result |-> nativeSegwitDecode(
                             SegwitString(checksum, witnessVersion, program, padding))]
    /\ Idle

CallDecodeBtcAddressSegwit ==
  \E checksum \in {"bech32", "bech32m", "invalid"}, witnessVersion \in WitnessVersions,
     program \in WitnessPrograms, padding \in {"exact", "extra"} :
    /\ Ready
    /\ call' = [fn |-> "decodeBtcAddress", checksum |-> checksum,
                witnessVersion |-> witnessVersion, program |-> program,
                padding |-> padding,
                result |-> decodeBtcAddress(
                             SegwitString(checksum, witnessVersion, program, padding))]
    /\ Idle

CallDecodeBtcAddressLegacy ==
  \E btcAddress \in Base58Strings \cup {[scheme |-> "other"]} :
    /\ Ready
    /\ call' = [fn |-> "decodeBtcAddress", checksum |-> "none", from |-> "string",
                address |-> btcAddress, result |-> decodeBtcAddress(btcAddress)]
    /\ Idle

\* decodeBtcAddress of the string getBTCAddress makes of a version and a hash
CallDecodeBtcAddressEncoded ==
  \E version \in VersionBytes, hash \in Hash160s, form \in {"number", "bytes"} :
    /\ Ready
    /\ call' = [fn |-> "decodeBtcAddress", checksum |-> "none", from |-> "getBTCAddress",
                version |-> version, hash |-> hash, form |-> form,
                result |-> decodeBtcAddress(
                             getBTCAddress(IF form = "number" THEN Num(version)
                                           ELSE BytesOf(<< version >>), hash))]
    /\ Idle

CallBtcAddressVersionToLegacyHashMode ==
  \E version \in VersionBytes :
    /\ Ready
    /\ call' = [fn |-> "btcAddressVersionToLegacyHashMode", version |-> version,
                result |-> btcAddressVersionToLegacyHashMode(version)]
    /\ Idle

CallPoxAddressToTupleLegacy ==
  \E version \in {0, 5, 111, 196, 1}, hash \in Hash160s :
    /\ Ready
    /\ call' = [fn |-> "poxAddressToTuple", checksum |-> "none", version |-> version,
                hash |-> hash,
                result |-> poxAddressToTuple(getBTCAddress(Num(version), hash))]
    /\ Idle

CallPoxAddressToTupleSegwit ==
  \E checksum \in {"bech32", "bech32m"}, witnessVersion \in {0, 1},
     program \in {Ramp(20, 7), Ramp(32, 9)} :
    /\ Ready
    /\ call' = [fn |-> "poxAddressToTuple", checksum |-> checksum,
                witnessVersion |-> witnessVersion, program |-> program,
                result |-> poxAddressToTuple(
                             SegwitString(checksum, witnessVersion, program, "exact"))]
    /\ Idle

CallRightPad ==
  \E array \in PaddedArrays, minLength \in {0, 32} :
    /\ Ready
    /\ call' = [fn |-> "rightPad", array |-> array, minLength |-> minLength,
                result |-> rightPad(array, minLength)]
    /\ Idle

CallEncodeMessage ==
  \E message \in Messages, prefix \in Prefixes :
    /\ Ready
    /\ call' = [fn |-> "encodeMessage", message |-> message,
                prefix |-> prefix, result |-> encodeMessage(message, prefix)]
    /\ Idle

CallHashMessage ==
  \E message \in {Str(s) : s \in StringMessages}, prefix \in Prefixes :
    /\ Ready
    /\ call' = [fn |-> "hashMessage", message |-> message,
                prefix |-> prefix, result |-> hashMessage(message, prefix)]
    /\ Idle

\* decodeMessage of what encodeMessage made with the same prefix
CallDecodeMessage ==
  \E message \in Messages, prefix \in Prefixes :
    /\ Ready
    /\ call' = [fn |-> "decodeMessage", message |-> message,
                prefix |-> prefix,
                encoded |-> encodeMessage(message, prefix),
                result |-> decodeMessage(encodeMessage(message, prefix),
                                         prefix)]
    /\ Idle

(***************************************************************************)
(* Calls of the key and signature functions.  The first signing call is    *)
(* kept in signed, so that a later call can be compared with it.           *)
(***************************************************************************)
IdlePayload ==
  /\ stage' = "idle"
  /\ created' = NoResult
  /\ wire' = << >>
  /\ wireKind' = "none"
  /\ decoded' = NoResult
  /\ UNCHANGED << client, location, storage, promises >>

CallSignWithKey ==
  \E privateKey \in PrivateKeys, messageHash \in MessageHashes :
    /\ Ready
    /\ call' = [fn |-> "signWithKey", privateKey |-> privateKey,
                messageHash |-> messageHash,
                result |-> signWithKey(privateKey, messageHash)]
    /\ signed' = IF signed = NoCall
                 THEN [fn |-> call'.fn, privateKey |-> privateKey,
                       messageHash |-> messageHash,
                       result |-> call'.result, draws |-> draws]
                 ELSE signed
    /\ UNCHANGED << signer, draws >>
    /\ IdlePayload

CallSignMessageHashRsv ==
  \E privateKey \in PrivateKeys, messageHash \in MessageHashes :
    /\ Ready
    /\ call' = [fn |-> "signMessageHashRsv", privateKey |-> privateKey,
                messageHash |-> messageHash,
                result |-> signMessageHashRsv(messageHash, privateKey)]
    /\ signed' = IF signed = NoCall
                 THEN [fn |-> call'.fn, privateKey |-> privateKey,
                       messageHash |-> messageHash,
                       result |-> call'.result, draws |-> draws]
                 ELSE signed
    /\ UNCHANGED << signer, draws >>
    /\ IdlePayload

\* publicKeyFromSignatureVrs on what signWithKey returned
CallPublicKeyFromSignatureVrs ==
  \E privateKey \in PrivateKeys, messageHash \in MessageHashes,
     pubKeyEncoding \in Encodings :
    /\ Ready
    /\ signWithKey(privateKey, messageHash).ok
    /\ call' = [fn |-> "publicKeyFromSignatureVrs",
                privateKey |-> privateKey, messageHash |-> messageHash,
                pubKeyEncoding |-> pubKeyEncoding,
                messageSignature |-> signWithKey(privateKey, messageHash).value,
                result |-> publicKeyFromSignatureVrs(
                             messageHash,
                             signWithKey(privateKey, messageHash).value,
                             pubKeyEncoding)]
    /\ Idle

\* publicKeyFromSignatureRsv on what signMessageHashRsv returned
CallPublicKeyFromSignatureRsv ==
  \E privateKey \in PrivateKeys, messageHash \in MessageHashes,
     pubKeyEncoding \in Encodings :
    /\ Ready
    /\ signMessageHashRsv(messageHash, privateKey).ok
    /\ call' = [fn |-> "publicKeyFromSignatureRsv",
                privateKey |-> privateKey, messageHash |-> messageHash,
                pubKeyEncoding |-> pubKeyEncoding,
                messageSignature |->
                  signMessageHashRsv(messageHash, privateKey).value,
                result |-> publicKeyFromSignatureRsv(
                             messageHash,
                             signMessageHashRsv(messageHash, privateKey).value,
                             pubKeyEncoding)]
    /\ Idle

CallPrivateKeyToPublic ==
  \E privateKey \in PrivateKeys :
    /\ Ready
    /\ call' = [fn |-> "privateKeyToPublic", privateKey |-> privateKey,
                result |-> privateKeyToPublic(privateKey)]
    /\ Idle

\* makeRandomPrivKey draws a key from the platform's random source
CallMakeRandomPrivKey ==
  \E d \in Scalars :
    /\ Ready
    /\ draws < MaxDraws
    /\ call' = [fn |-> "makeRandomPrivKey", result |-> bytesToHex(d)]
    /\ draws' = draws + 1
    /\ UNCHANGED << signer, signed >>
    /\ IdlePayload

CallGetDelegateStackOptions ==
  \E contract \in ContractIds, nonce \in Nonces :
    /\ Ready
    /\ call' = [fn |-> "getDelegateStackOptions", nonce |-> nonce,
                result |-> getDelegateStackOptions(
                  [contract |-> contract, stacker |-> Stacker,
                   amountMicroStx |-> IntOf(BigIntOfNumber(7)),
                   poxAddress |-> PoxAddress,
                   burnBlockHeight |-> IntOf(BigIntOfNumber(100)),
                   cycles |-> IntOf(BigIntOfNumber(2)), nonce |-> nonce])]
    /\ Idle

CallGetDelegateStackExtendOptions ==
  \E contract \in ContractIds, nonce \in Nonces :
    /\ Ready
    /\ call' = [fn |-> "getDelegateStackExtendOptions", nonce |-> nonce,
                result |-> getDelegateStackExtendOptions(
                  [contract |-> contract, stacker |-> Stacker,
                   poxAddress |-> PoxAddress,
                   extendCount |-> IntOf(BigIntOfNumber(1)), nonce |-> nonce])]
    /\ Idle

CallGetDelegateStackIncreaseOptions ==
  \E contract \in ContractIds, nonce \in Nonces :
    /\ Ready
    /\ call' = [fn |-> "getDelegateStackIncreaseOptions", nonce |-> nonce,
                result |-> getDelegateStackIncreaseOptions(
                  [contract |-> contract, stacker |-> Stacker,
                   poxAddress |-> PoxAddress,
                   increaseBy |-> IntOf(BigIntOfNumber(3)), nonce |-> nonce])]
    /\ Idle

CallGetPoxOperationInfo ==
  \E poxInfo \in PoxInfos, isPox2Configured \in BOOLEAN :
    /\ Ready
    /\ call' = [fn |-> "getPoxOperationInfo", poxInfo |-> poxInfo,
                isPox2Configured |-> isPox2Configured,
                result |-> getPoxOperationInfo(poxInfo, isPox2Configured)]
    /\ Idle

CallIsLaterVersion ==
  \E t1 \in VersionTuples, t2 \in VersionTuples :
    /\ Ready
    /\ call' = [fn |-> "isLaterVersion", t1 |-> t1, t2 |-> t2,
                v1 |-> Dotted(t1), v2 |-> Dotted(t2),
                result |-> isLaterVersion(Dotted(t1), Dotted(t2))]
    /\ Idle

\* the payload, the buffer and the results are dropped
Discard ==
  /\ ~Ready
  /\ call' = NoCall
  /\ Idle

Next ==
  \/ CreateTokenTransfer
  \/ CreateContractCall
  \/ CreateSmartContract
  \/ CreatePoison
  \/ CreateCoinbase
  \/ CreateNakamotoCoinbase
  \/ CreateTenureChange
  \/ ModifyLockTxFee
  \/ Serialize
  \/ Truncate
  \/ Retag
  \/ AppendTrailer
  \/ Deserialize
  \/ Discard
  \/ CallIntCV
  \/ CallUintCV
  \/ CallNativeSegwitDecode
  \/ CallDecodeBtcAddressSegwit
  \/ CallDecodeBtcAddressLegacy
  \/ CallDecodeBtcAddressEncoded
  \/ CallBtcAddressVersionToLegacyHashMode
  \/ CallPoxAddressToTupleLegacy
  \/ CallPoxAddressToTupleSegwit
  \/ CallRightPad
  \/ CallEncodeMessage
  \/ CallHashMessage
  \/ CallDecodeMessage
  \/ CallGetDelegateStackOptions
  \/ CallGetDelegateStackExtendOptions
  \/ CallGetDelegateStackIncreaseOptions
  \/ CallIsLaterVersion
  \/ CallGetPoxOperationInfo

Spec == Init /\ [][Next]_vars

\* the key and signature calls, among calls of other functions
SignNext ==
  \/ CallSignWithKey
  \/ CallSignMessageHashRsv
  \/ CallPublicKeyFromSignatureVrs
  \/ CallPublicKeyFromSignatureRsv
  \/ CallPrivateKeyToPublic
  \/ CallMakeRandomPrivKey
  \/ CallHashMessage
  \/ CallRightPad
  \/ Discard

SignSpec == SignInit /\ [][SignNext]_vars

(***************************************************************************)
(* StackingClient: the operations on PoX-2.  An operation is an async      *)
(* function; client holds the one in progress, pc the await it stands at.  *)
(***************************************************************************)
Pox2Operations == {"stackExtend", "stackIncrease", "delegateStackExtend", "delegateStackIncrease"}

\* utils.ts: throws while PoX-2 has not been activated, in period 1
ensurePox2IsLive(poxOperationInfo) ==
  IF poxOperationInfo.period = 1 THEN Throw("PoX-2 has not activated yet") ELSE Ok(Undefined)

\* the operations whose body asks for the operation info and checks it
GetsPoxOperationInfo(name) == name \in {"stackExtend", "stackIncrease", "delegateStackIncrease"}

OtherKept == UNCHANGED << stage, created, wire, wireKind, decoded, call, signer, signed, draws, location, storage, promises >>

\* the call of one of the operations: it runs to its first await
StartOperation ==
  \E name \in Pox2Operations :
    /\ client = NoOperation
    /\ client' = [name |-> name, pc |-> "getPoxInfo", poxInfo |-> Undefined,
                  poxOperationInfo |-> Undefined, checked |-> FALSE, built |-> FALSE,
                  broadcast |-> FALSE, error |-> ""]
    /\ OtherKept

\* await this.getPoxInfo() returns what the node reports
GetPoxInfo ==
  \E poxInfo \in PoxInfos :
    /\ client # NoOperation
    /\ client.pc = "getPoxInfo"
    /\ client' = [client EXCEPT !.poxInfo = poxInfo,
                                !.pc = IF GetsPoxOperationInfo(client.name)
                                       THEN "getPoxOperationInfo" ELSE "makeContractCall"]
    /\ OtherKept

\* await this.getPoxOperationInfo(poxInfo) returns, then ensurePox2IsLive
\* and the options up to await makeContractCall
GetPoxOperationInfo ==
  \E isPox2Configured \in BOOLEAN :
    LET info == getPoxOperationInfo(client.poxInfo, isPox2Configured)
        live == ensurePox2IsLive(info.value)
    IN /\ client # NoOperation
       /\ client.pc = "getPoxOperationInfo"
       /\ client' = IF ~info.ok THEN [client EXCEPT !.pc = "rejected", !.error = info.error]
                    ELSE IF ~live.ok
                         THEN [client EXCEPT !.pc = "rejected", !.error = live.error,
                                             !.poxOperationInfo = info.value]
                    ELSE [client EXCEPT !.pc = "makeContractCall", !.checked = TRUE,
                                        !.poxOperationInfo = info.value]
       /\ OtherKept

\* await makeContractCall(...) returns the transaction
MakeContractCall ==
  /\ client # NoOperation
  /\ client.pc = "makeContractCall"
  /\ client' = [client EXCEPT !.built = TRUE, !.pc = "broadcastTransaction"]
  /\ OtherKept

\* broadcastTransaction(tx, network) sends it
BroadcastTransaction ==
  /\ client # NoOperation
  /\ client.pc = "broadcastTransaction"
  /\ client' = [client EXCEPT !.broadcast = TRUE, !.pc = "resolved"]
  /\ OtherKept

\* the caller has the result and the client is free for the next operation
Settled ==
  /\ client # NoOperation
  /\ client.pc \in {"resolved", "rejected"}
  /\ client' = NoOperation
  /\ OtherKept

StackNext ==
  \/ StartOperation
  \/ GetPoxInfo
  \/ GetPoxOperationInfo
  \/ MakeContractCall
  \/ BroadcastTransaction
  \/ Settled

StackSpec == Init /\ [][StackNext]_vars

(***************************************************************************)
(* authApp.js: the sign-in of an application.  location is the             *)
(* authResponse of the query of window.location, storage the item          *)
(* BLOCKSTACK_STORAGE_LABEL of localStorage, promises the promises that     *)
(* handlePendingSignIn has returned and the caller still holds.            *)
(*                                                                         *)
(* verifyAuthResponse is outside this file.  Its promise resolves to true  *)
(* for a valid token and to false for an invalid one, and rejects for one  *)
(* it cannot process; what it does without a token is not known here, so   *)
(* every outcome short of success is taken.                                *)
(***************************************************************************)
AuthResponseTokens == {"valid", "invalid", "broken"}

verifyAuthResponse(token) ==
  CASE token = "valid" -> {"true"}
    [] token = "invalid" -> {"false"}
    [] token = "broken" -> {"rejects"}
    [] OTHER -> {"false", "rejects", "throws"}

getAuthResponseToken == location

isUserSignedIn == storage # NoItem

AuthKept == UNCHANGED << stage, created, wire, wireKind, decoded, call, signer, signed, draws, client >>

\* the first promise slot that is free
FreeSlot(i) == promises[i] = NoPromise /\ \A j \in 1 .. (i - 1) : promises[j] # NoPromise

\* the identity provider sends the browser back with an authResponse
RedirectedBack ==
  \E token \in AuthResponseTokens :
    /\ location # token
    /\ location' = token
    /\ UNCHANGED << storage, promises >>
    /\ AuthKept

\* handlePendingSignIn(): the executor of the new promise calls
\* verifyAuthResponse; a throw inside the executor rejects the promise
HandlePendingSignIn ==
  \E i \in 1 .. MaxSignIns, outcome \in verifyAuthResponse(getAuthResponseToken) :
    /\ FreeSlot(i)
    /\ promises' = [promises EXCEPT ![i] =
                      [outer |-> IF outcome = "throws" THEN "rejected" ELSE "pending",
                       authResponseToken |-> getAuthResponseToken,
                       verification |-> IF outcome = "throws" THEN "thrown" ELSE "pending",
                       signedOutSince |-> FALSE]]
    /\ UNCHANGED << location, storage >>
    /\ AuthKept

\* the promise of verifyAuthResponse resolves and the callback of then runs
ThenCallback(i) ==
  \E isValid \in BOOLEAN :
    /\ promises[i] # NoPromise
    /\ promises[i].verification = "pending"
    /\ (IF isValid THEN "true" ELSE "false") \in verifyAuthResponse(promises[i].authResponseToken)
    /\ IF isValid
         THEN /\ storage' = [authResponseToken |-> promises[i].authResponseToken]
              /\ promises' = [promises EXCEPT ![i].outer = "resolved", ![i].verification = "true"]
         ELSE /\ storage' = storage
              /\ promises' = [promises EXCEPT ![i].outer = "rejected", ![i].verification = "false"]
    /\ UNCHANGED location
    /\ AuthKept

\* the promise of verifyAuthResponse rejects: then has no rejection handler
\* and the chain has no catch, so neither resolve nor reject is called
VerificationRejects(i) ==
  /\ promises[i] # NoPromise
  /\ promises[i].verification = "pending"
  /\ "rejects" \in verifyAuthResponse(promises[i].authResponseToken)
  /\ promises' = [promises EXCEPT ![i].verification = "rejected"]
  /\ UNCHANGED << location, storage >>
  /\ AuthKept

\* signUserOut(): the item is removed and the browser sent to redirectURL
signUserOut ==
  /\ storage' = NoItem
  /\ location' = "none"
  /\ promises' = [i \in 1 .. MaxSignIns |->
                    IF promises[i] = NoPromise THEN NoPromise
                    ELSE [promises[i] EXCEPT !.signedOutSince = TRUE]]
  /\ \/ isUserSignedIn
     \/ location # "none"
     \/ \E i \in 1 .. MaxSignIns : promises[i] # NoPromise /\ ~promises[i].signedOutSince
  /\ AuthKept

\* the caller is done with a settled promise and drops it
DropSettled(i) ==
  /\ promises[i] # NoPromise
  /\ promises[i].outer # "pending"
  /\ \A j \in (i + 1) .. MaxSignIns : promises[j] = NoPromise
  /\ promises' = [promises EXCEPT ![i] = NoPromise]
  /\ UNCHANGED << location, storage >>
  /\ AuthKept

VerificationEnds(i) == ThenCallback(i) \/ VerificationRejects(i)

AuthNext ==
  \/ RedirectedBack
  \/ HandlePendingSignIn
  \/ \E i \in 1 .. MaxSignIns : ThenCallback(i)
  \/ \E i \in 1 .. MaxSignIns : VerificationRejects(i)
  \/ signUserOut
  \/ \E i \in 1 .. MaxSignIns : DropSettled(i)

\* every verification comes to an end, and the event loop runs the callback
AuthSpec == Init /\ [][AuthNext]_vars /\ \A i \in 1 .. MaxSignIns : WF_vars(VerificationEnds(i))


(***************************************************************************)
(* Properties of the integer constructors (intCV.ts).                      *)
(***************************************************************************)
\* the integer a call was given, from the limit it was taken around
CallValue == BigAdd(LimitValue(call.base), call.d)

\* whether that integer lies in [-2^127, 2^127 - 1]
InSigned128 ==
  CASE call.base = "MAX_I128" -> call.d <= 0
    [] call.base = "MIN_I128" -> call.d >= 0
    [] call.base = "MAX_U128" -> FALSE
    [] OTHER -> TRUE

\* whether that integer lies in [0, 2^128 - 1]
InUnsigned128 ==
  CASE call.base = "ZERO" -> call.d >= 0
    [] call.base = "MIN_I128" -> FALSE
    [] call.base = "MAX_U128" -> call.d <= 0
    [] OTHER -> TRUE

\* C7: intCV returns an Int value holding v exactly for every v in
\* [-2^127, 2^127 - 1], and throws a RangeError for every v below -2^127
\* or above 2^127 - 1.
C7_IntCVRange ==
  call.fn = "intCV" =>
    IF InSigned128
    THEN /\ call.result.ok
         /\ call.result.value = [type |-> ClarityType.Int, value |-> CallValue]
    ELSE ~call.result.ok /\ call.result.error = "RangeError"

\* 2^127 is refused
C7_Witness ==
  /\ call.fn = "intCV"
  /\ call.base = "MAX_I128"
  /\ call.d = 1
  /\ ~call.result.ok

\* C8: uintCV returns a UInt value holding v exactly for every v in
\* [0, 2^128 - 1], and throws a RangeError for every negative v and every v
\* above 2^128 - 1, so that no such value exists to be serialized.
C8_UintCVRange ==
  call.fn = "uintCV" =>
    IF InUnsigned128
    THEN /\ call.result.ok
         /\ call.result.value = [type |-> ClarityType.UInt, value |-> CallValue]
    ELSE ~call.result.ok /\ call.result.error = "RangeError"

\* -1 is refused
C8_Witness ==
  /\ call.fn = "uintCV"
  /\ call.base = "ZERO"
  /\ call.d = -1
  /\ ~call.result.ok


(***************************************************************************)
(* Properties of the payload codec (payload.ts).                           *)
(***************************************************************************)
\* a payload was built and not refused
HasPayload == stage \in {"created", "serialized", "decoded"}

\* wire is what serializePayloadBytes wrote of the payload, byte for byte
WireIsSerialized == stage \in {"serialized", "decoded"} /\ wireKind = "serialized"

\* the buffer written of the payload has been decoded
RoundTripDone == stage = "decoded" /\ wireKind = "serialized"

\* C1: every payload built by a create*Payload constructor, serialized with
\* serializePayloadBytes and decoded with deserializePayloadBytes, comes
\* back equal field by field, boundary field values included.
C1_RoundTrip ==
  RoundTripDone => decoded.ok /\ decoded.value = created.value

\* a TenureChange payload that decodes to another consensus hash
C1_Witness ==
  /\ RoundTripDone
  /\ created.value.payloadType = PayloadType.TenureChange
  /\ decoded.ok
  /\ decoded.value.tenureHash # created.value.tenureHash

\* C2: a buffer whose first byte is no PayloadType value, a
\* VersionedSmartContract buffer whose ClarityVersion byte is no
\* ClarityVersion value, and a TenureChange buffer whose cause byte is no
\* TenureChangeCause value all fail to decode, with the error of that byte;
\* none is decoded as a default variant.
C2_UnknownTagsRejected ==
  stage = "decoded" =>
    /\ (Len(wire) >= 1 /\ wire[1] \notin 0 .. 8) =>
         (~decoded.ok /\ decoded.error = "Cannot recognize PayloadType")
    /\ (Len(wire) >= 2 /\ wire[1] = 6 /\ wire[2] \notin {1, 2}) =>
         (~decoded.ok /\ decoded.error = "Cannot recognize ClarityVersion")
    /\ (Len(wire) >= 98 /\ wire[1] = 7 /\ wire[98] \notin {0, 1}) =>
         (~decoded.ok /\ decoded.error = "Cannot recognize TenureChangeCause")

\* a whole TenureChange buffer with the cause byte 2 was refused
C2_Witness ==
  /\ stage = "decoded"
  /\ wireKind = "retagged"
  /\ Len(wire) = 118
  /\ wire[1] = 7
  /\ wire[98] = 2
  /\ ~decoded.ok

\* the payload variants whose fields all have a fixed size
FixedSizeVariants ==
  {PayloadType.TokenTransfer, PayloadType.Coinbase, PayloadType.CoinbaseToAltRecipient,
   PayloadType.NakamotoCoinbase, PayloadType.TenureChange}

\* the fields of the payload have the sizes of the wire format
FieldsOfWireSize(payload) ==
  CASE payload.payloadType = PayloadType.TokenTransfer ->
         ~payload.amount.neg /\ Len(payload.amount.mag) <= 8
    [] payload.payloadType = PayloadType.TenureChange ->
         /\ Len(payload.tenureHash) = 40
         /\ Len(payload.previousTenureHash) = 40
         /\ Len(payload.burnViewHash) = 40
         /\ Len(payload.previousTenureEnd) = 64
         /\ Len(payload.publicKeyHash) = 40
    [] OTHER -> TRUE

\* C3: a buffer that ends before the last byte of the encoding of a
\* fixed-size payload variant (TokenTransfer, Coinbase,
\* CoinbaseToAltRecipient, NakamotoCoinbase, TenureChange) fails to decode
\* with an underflow error, and no payload is returned.
C3_TruncatedRejected ==
  ( /\ stage = "decoded"
    /\ wireKind = "truncated"
    /\ created.value.payloadType \in FixedSizeVariants
    /\ FieldsOfWireSize(created.value) ) =>
      (~decoded.ok /\ decoded.error = "Underflow" /\ decoded.value = << >>)

\* a TenureChange buffer without its last byte was refused
C3_Witness ==
  /\ stage = "decoded"
  /\ wireKind = "truncated"
  /\ created.value.payloadType = PayloadType.TenureChange
  /\ FieldsOfWireSize(created.value)
  /\ Len(wire) = 117
  /\ ~decoded.ok

\* the number of bytes of a serialized principal
PrincipalSize(cv) ==
  IF cv.type = ClarityType.PrincipalStandard THEN 22 ELSE 23 + Len(cv.contractName)

\* C4: createTokenTransferPayload refuses every amount below 0 or above
\* 2^64 - 1, so that every TokenTransfer payload holds an amount of the
\* 8-byte range, and serializePayloadBytes writes that amount as exactly 8
\* big-endian bytes after the recipient.
C4_AmountInRange ==
  (HasPayload /\ created.value.payloadType = PayloadType.TokenTransfer) =>
    /\ ~created.value.amount.neg
    /\ Len(created.value.amount.mag) <= 8
    /\ WireIsSerialized =>
         LET at == 1 + PrincipalSize(created.value.recipient)
         IN /\ Len(wire) = at + 8 + 34
            /\ SubSeq(wire, at + 1, at + 8) = FixWidth(created.value.amount.mag, 8)

\* a TokenTransfer payload holding the amount 2^64
C4_Witness ==
  /\ stage = "created"
  /\ created.value.payloadType = PayloadType.TokenTransfer
  /\ created.value.amount = Big(FALSE, << 1, 0, 0, 0, 0, 0, 0, 0, 0 >>)

\* C5: every TenureChange payload that createTenureChangePayload returns is
\* serialized as the tag 7 and exactly 117 bytes: the tenure hash (20), the
\* previous tenure hash (20), the burn view hash (20), the previous tenure
\* end (32), the previous tenure blocks (4, big-endian), the cause (1) and
\* the public key hash (20), in this order.
C5_TenureChangeLayout ==
  (WireIsSerialized /\ created.value.payloadType = PayloadType.TenureChange) =>
    /\ Len(wire) = 118
    /\ wire[1] = 7
    /\ SubSeq(wire, 2, 21) = hexToBytes(created.value.tenureHash)
    /\ SubSeq(wire, 22, 41) = hexToBytes(created.value.previousTenureHash)
    /\ SubSeq(wire, 42, 61) = hexToBytes(created.value.burnViewHash)
    /\ SubSeq(wire, 62, 93) = hexToBytes(created.value.previousTenureEnd)
    /\ SubSeq(wire, 94, 97) = << 0, created.value.previousTenureBlocks \div 65536,
                                 (created.value.previousTenureBlocks \div 256) % 256,
                                 created.value.previousTenureBlocks % 256 >>
    /\ wire[98] = created.value.cause
    /\ SubSeq(wire, 99, 118) = hexToBytes(created.value.publicKeyHash)

\* a TenureChange payload serialized as the tag and 116 bytes
C5_Witness ==
  /\ stage = "serialized"
  /\ wireKind = "serialized"
  /\ created.value.payloadType = PayloadType.TenureChange
  /\ Len(wire) = 117

\* C6: a ContractCall payload of n arguments is serialized with n as a
\* 4-byte big-endian count after the function name, followed by exactly the
\* n serialized values in list order, and decoding that buffer gives a
\* ContractCall payload with the same n arguments in the same order.
C6_FunctionArgs ==
  (WireIsSerialized /\ created.value.payloadType = PayloadType.ContractCall) =>
    LET functionArgs == created.value.functionArgs
        at == 24 + Len(created.value.contractName.content)
                 + Len(created.value.functionName.content)
    IN /\ SubSeq(wire, at + 1, at + 4) = << 0, 0, 0, Len(functionArgs) >>
       /\ Drop(wire, at + 4) =
            concatArray([i \in 1 .. Len(functionArgs) |-> serializeCVBytes(functionArgs[i])])
       /\ stage = "decoded" =>
            /\ decoded.ok
            /\ decoded.value.payloadType = PayloadType.ContractCall
            /\ decoded.value.functionArgs = functionArgs

\* a call of two different arguments was serialized and decoded
C6_Witness ==
  /\ RoundTripDone
  /\ created.value.payloadType = PayloadType.ContractCall
  /\ Len(created.value.functionArgs) = 2
  /\ created.value.functionArgs[1] # created.value.functionArgs[2]
  /\ decoded.ok


(***************************************************************************)
(* Properties of the Bitcoin address decoders (stacking/src/utils.ts).     *)
(***************************************************************************)
\* the last call decoded a segwit string with a valid checksum
SegwitCall(fn) == call.fn = fn /\ call.checksum \in {"bech32", "bech32m"}

\* the string carries the checksum of the encoding its witness version excludes
EncodingMismatch ==
  \/ call.checksum = "bech32" /\ call.witnessVersion >= 1
  \/ call.checksum = "bech32m" /\ call.witnessVersion = 0

\* C9: decodeBtcAddress maps a valid segwit address of witness version 0
\* and a 20-byte program to NativeP2WPKH, of version 0 and a 32-byte program
\* to NativeP2WSH, of version 1 (bech32m) and a 32-byte program to
\* NativeP2TR, each with the program as data, and fails for every other
\* pair of witness version and program length.
C9_SegwitVersions ==
  (SegwitCall("decodeBtcAddress") /\ ~EncodingMismatch /\ call.padding = "exact") =>
    CASE call.witnessVersion = 0 /\ Len(call.program) = 20 ->
           call.result.ok /\ call.result.value = [version |-> 4, data |-> call.program]
      [] call.witnessVersion = 0 /\ Len(call.program) = 32 ->
           call.result.ok /\ call.result.value = [version |-> 5, data |-> call.program]
      [] call.witnessVersion = 1 /\ Len(call.program) = 32 ->
           call.result.ok /\ call.result.value = [version |-> 6, data |-> call.program]
      [] OTHER -> ~call.result.ok /\ call.result.error = "InvalidAddressError"

\* a bech32 address of witness version 0 and a 20-byte program was refused
C9_Witness ==
  /\ SegwitCall("decodeBtcAddress")
  /\ call.checksum = "bech32"
  /\ call.witnessVersion = 0
  /\ call.program = Ramp(20, 7)
  /\ call.padding = "exact"
  /\ ~call.result.ok

\* C10: nativeSegwitDecode and decodeBtcAddress refuse a string with a
\* bech32 checksum and a witness version of 1 or more, and a string with a
\* bech32m checksum and the witness version 0; nativeSegwitDecode returns
\* the witness version and the program of a string whose checksum is the
\* one its witness version requires.
C10_EncodingEnforced ==
  /\ (SegwitCall("nativeSegwitDecode") /\ EncodingMismatch) =>
       (~call.result.ok /\ call.result.error = "not a valid bech32/bech32m address")
  /\ (SegwitCall("decodeBtcAddress") /\ EncodingMismatch) =>
       (~call.result.ok /\ call.result.error = "InvalidAddressError")
  /\ (SegwitCall("nativeSegwitDecode") /\ ~EncodingMismatch /\ call.padding = "exact") =>
       /\ call.result.ok
       /\ call.result.value = [witnessVersion |-> Num(call.witnessVersion),
                               data |-> call.program]

\* a bech32 string of witness version 1 was refused by nativeSegwitDecode
C10_Witness ==
  /\ SegwitCall("nativeSegwitDecode")
  /\ call.checksum = "bech32"
  /\ call.witnessVersion = 1
  /\ call.program = Ramp(32, 9)
  /\ call.padding = "exact"
  /\ ~call.result.ok


\* the last call was decodeBtcAddress of a base-58 or other string
LegacyCall(from) ==
  call.fn = "decodeBtcAddress" /\ call.checksum = "none" /\ call.from = from

\* C11: for every 20-byte hash h and version byte v, decodeBtcAddress of
\* getBTCAddress(v, h) returns the data h with the version P2PKH when v is
\* 0x00 or 0x6f and P2SH when v is 0x05 or 0xc4, and for every other
\* version byte btcAddressVersionToLegacyHashMode throws.
C11_LegacyRoundTrip ==
  /\ LegacyCall("getBTCAddress") =>
       CASE call.version \in {0, 111} ->
              call.result.ok /\ call.result.value = [version |-> 0, data |-> call.hash]
         [] call.version \in {5, 196} ->
              call.result.ok /\ call.result.value = [version |-> 1, data |-> call.hash]
         [] OTHER -> ~call.result.ok
  /\ call.fn = "btcAddressVersionToLegacyHashMode" =>
       CASE call.version \in {0, 111} -> call.result.ok /\ call.result.value = 0
         [] call.version \in {5, 196} -> call.result.ok /\ call.result.value = 1
         [] OTHER -> ~call.result.ok /\ call.result.error = "Invalid pox address version"

\* a testnet P2SH address made from a version byte array was decoded
C11_Witness ==
  /\ LegacyCall("getBTCAddress")
  /\ call.version = 196
  /\ call.form = "bytes"
  /\ call.result.ok
  /\ call.result.value.data = call.hash


\* the string the last decodeBtcAddress call was given
CallAddress ==
  IF call.checksum # "none"
  THEN SegwitString(call.checksum, call.witnessVersion, call.program, call.padding)
  ELSE IF call.from = "string" THEN call.address
  ELSE getBTCAddress(Num(call.version), call.hash)

\* the string is a checksummed base-58 string of a legacy version byte
Base58Succeeds ==
  /\ call.checksum = "none"
  /\ IF call.from = "string"
     THEN /\ call.address.scheme = "base58"
          /\ call.address.checksumOk
          /\ call.address.version \in {0, 5, 111, 196}
     ELSE call.version \in {0, 5, 111, 196}

\* the string is a segwit string that nativeSegwitDecode reads
SegwitReads ==
  /\ call.checksum \in {"bech32", "bech32m"}
  /\ ~EncodingMismatch
  /\ call.padding = "exact"

\* the error at the origin of the failure of the segwit decoding: the one
\* of the last decoder tried, or of the version mapping after it
InnermostError(btcAddress) ==
  IF nativeSegwitDecode(btcAddress).ok
  THEN "Invalid native segwit witness version and byte length"
  ELSE bech32MDecode(btcAddress).error

C13_TuplePadding ==
  /\ (call.fn = "poxAddressToTuple" /\ call.result.ok) =>
       LET data == IF call.checksum = "none" THEN call.hash ELSE call.program
           version == IF call.checksum # "none" THEN call.result.value.data.version.buffer[1]
                      ELSE IF call.version \in {0, 111} THEN 0 ELSE 1
           hashbytes == call.result.value.data.hashbytes
       IN /\ call.result.value.type = 12
          /\ call.result.value.data.version = [type |-> 2, buffer |-> << version >>]
          /\ hashbytes.type = 2
          /\ Len(hashbytes.buffer) = 32
          /\ SubSeq(hashbytes.buffer, 1, Len(data)) = data
          /\ \A i \in (Len(data) + 1) .. 32 : hashbytes.buffer[i] = 0
  /\ call.fn = "rightPad" =>
       /\ Len(call.result) = IF Len(call.array) >= call.minLength THEN Len(call.array)
                             ELSE call.minLength
       /\ SubSeq(call.result, 1, Len(call.array)) = call.array
       /\ \A i \in (Len(call.array) + 1) .. Len(call.result) : call.result[i] = 0

\* the tuple of a mainnet P2SH address was built
C13_Witness ==
  /\ call.fn = "poxAddressToTuple"
  /\ call.checksum = "none"
  /\ call.version = 5
  /\ call.hash = Ramp(20, 11)
  /\ call.result.ok
  /\ call.result.value.data.hashbytes.buffer = Ramp(20, 11) \o Fill(12, 0)

(***************************************************************************)
(* The message-signing codec.                                              *)
(***************************************************************************)
MessageBytes(message) ==
  IF IsString(message) THEN utf8ToBytes(message.str) ELSE message.bytes

\* C14: decodeMessage of encodeMessage(m, prefix), with the same prefix,
\* is exactly the bytes of m: for the empty message, a one-byte message
\* and messages long enough for a length prefix of several bytes.
C14_MessageRoundTrip ==
  call.fn = "decodeMessage" => call.result = MessageBytes(call.message)

C14_Witness ==
  /\ call.fn = "decodeMessage"
  /\ call.prefix # Undefined
  /\ ~IsString(call.message)
  /\ Len(call.message.bytes) >= 253
  /\ call.encoded # call.result
  /\ call.result = call.message.bytes

SigningText ==
  << 83, 116, 97, 99, 107, 115, 32, 77, 101, 115, 115, 97, 103, 101, 32,
     83, 105, 103, 110, 105, 110, 103, 58, 10 >>

PrefixBytes(prefix) ==
  IF prefix = Undefined THEN << 24 >> \o SigningText
  ELSE utf8ToBytes(prefix.str)

LengthPrefix(n) ==
  IF n < 253 THEN << n >> ELSE << 253, n % 256, n \div 256 >>

Layout(message, prefix) ==
  PrefixBytes(prefix) \o LengthPrefix(Len(MessageBytes(message)))
    \o MessageBytes(message)

\* C15: encodeMessage(m, prefix) is the prefix bytes (by default the control
\* byte 24 and the text 'Stacks Message Signing:\n'), then the length of m
\* as a variable-length integer, then the bytes of m; hashMessage(m) is one
\* SHA-256 of exactly that buffer.
C15_LayoutAndSingleHash ==
  /\ call.fn = "encodeMessage"
       => call.result = Layout(call.message, call.prefix)
  /\ call.fn = "hashMessage"
       => call.result = [sha256 |-> Layout(call.message, call.prefix)]

C15_Witness ==
  /\ call.fn = "hashMessage"
  /\ call.prefix = Undefined
  /\ Len(call.message.str) > 0
  /\ call.result.sha256 =
       << 24 >> \o SigningText \o << Len(utf8ToBytes(call.message.str)) >>
         \o utf8ToBytes(call.message.str)

(***************************************************************************)
(* The key and signature subsystem.                                        *)
(***************************************************************************)
VrsOf(privateKey, messageHash) == signWithKey(privateKey, messageHash).value

\* C16: the RSV signature of signMessageHashRsv is the VRS signature of
\* signWithKey for the same key and digest with the recovery id moved from
\* the front to the end and nothing else changed; signatureRsvToVrs gives
\* the VRS bytes back; and publicKeyFromSignatureRsv on the RSV form returns
\* the key that publicKeyFromSignatureVrs returns on the VRS form.
C16_RsvIsReorderedVrs ==
  /\ (call.fn = "signMessageHashRsv" /\ call.result.ok) =>
       LET vrs == VrsOf(call.privateKey, call.messageHash).data
           rsv == call.result.value.data
       IN /\ Len(rsv) = 130 /\ Len(vrs) = 130
          /\ \A i \in 1 .. 128 : rsv[i] = vrs[i + 2]
          /\ rsv[129] = vrs[1] /\ rsv[130] = vrs[2]
          /\ signatureRsvToVrs(rsv) = vrs
  /\ call.fn = "publicKeyFromSignatureRsv" =>
       call.result =
         publicKeyFromSignatureVrs(call.messageHash,
                                   VrsOf(call.privateKey, call.messageHash),
                                   call.pubKeyEncoding)

C16_Witness ==
  /\ call.fn = "signMessageHashRsv"
  /\ call.result.ok
  /\ call.result.value.data[130] = 1
  /\ call.result.value.data # VrsOf(call.privateKey, call.messageHash).data

\* C17 as stated: the key recovered from signWithKey(k, h) with the default
\* encoding equals privateKeyToPublic(k) for every private key k.
C17_RecoversOriginalKey ==
  (call.fn = "publicKeyFromSignatureVrs" /\ call.pubKeyEncoding = Undefined)
    => call.result = privateKeyToPublic(call.privateKey)

AsksCompressed(pubKeyEncoding) ==
  \/ "undefined" \in DOMAIN pubKeyEncoding
  \/ pubKeyEncoding = [number |-> PubKeyEncoding.Compressed]

\* C17: the key recovered from signWithKey(k, h) is the public point of the
\* first 32 bytes of k, in the encoding the caller chose (compressed by
\* default); it equals privateKeyToPublic(k) exactly when that encoding is
\* the compression of k.
C17_RecoversSignersPoint ==
  call.fn = "publicKeyFromSignatureVrs" =>
    LET compressed == AsksCompressed(call.pubKeyEncoding)
        scalar == Take(privateKeyToBytes(call.privateKey), 32)
    IN /\ call.result = bytesToHex(nobleGetPublicKey(scalar, compressed))
       /\ (call.result = privateKeyToPublic(call.privateKey))
            <=> (privateKeyIsCompressed(call.privateKey) <=> compressed)

C17_Witness ==
  /\ call.fn = "publicKeyFromSignatureVrs"
  /\ call.pubKeyEncoding = Undefined
  /\ ~privateKeyIsCompressed(call.privateKey)
  /\ call.result # privateKeyToPublic(call.privateKey)
  /\ call.result =
       bytesToHex(nobleGetPublicKey(privateKeyToBytes(call.privateKey), TRUE))

\* C18: signWithKey returns 65 bytes in VRS order: a recovery id 0 or 1,
\* 32 bytes r and 32 bytes s in low-S form; when the signer yields no
\* recovery id the call throws and no signature is returned.
C18_VrsOrThrow ==
  call.fn = "signWithKey" =>
    IF signer = "sound"
      THEN /\ call.result.ok
           /\ LET bytes == hexToBytes(call.result.value.data)
              IN /\ Len(bytes) = 65
                 /\ bytes[1] \in {0, 1}
                 /\ IsLowS(SubSeq(bytes, 34, 65))
                 /\ PointFromSignature(call.messageHash,
                                       [r |-> SubSeq(bytes, 2, 33),
                                        s |-> SubSeq(bytes, 34, 65)],
                                       bytes[1])
                      = PointOf(Take(privateKeyToBytes(call.privateKey), 32))
      ELSE /\ ~call.result.ok
           /\ call.result.error = "No signature recoveryId received"
           /\ call.result.value = << >>

C18_Witness ==
  /\ call.fn = "signWithKey"
  /\ signer = "noRecoveryId"
  /\ ~call.result.ok

\* C19: a signing call with the key and the digest of an earlier call of
\* the same function returns the same result, whatever was called between
\* the two and however many random values were drawn.
C19_Deterministic ==
  (/\ signed # NoCall
   /\ call.fn = signed.fn
   /\ privateKeyToBytes(call.privateKey) = privateKeyToBytes(signed.privateKey)
   /\ call.messageHash = signed.messageHash)
    => call.result = signed.result

C19_Witness ==
  /\ signed # NoCall
  /\ call.fn = signed.fn
  /\ call.privateKey # signed.privateKey
  /\ privateKeyToBytes(call.privateKey) = privateKeyToBytes(signed.privateKey)
  /\ call.messageHash = signed.messageHash
  /\ signed.draws < draws
  /\ call.result.ok
  /\ call.result = signed.result

\* C20: privateKeyToPublic(k) is the public key of the first 32 bytes of k,
\* and it is compressed (first byte not 04) exactly when k is compressed
\* (33 bytes): isPublicKeyCompressed of it equals isPrivateKeyCompressed(k).
C20_CompressionFollowsKey ==
  call.fn = "privateKeyToPublic" =>
    LET bytes == privateKeyToBytes(call.privateKey)
        public == hexToBytes(call.result)
    IN /\ publicKeyIsCompressed(HexString(call.result))
            = privateKeyIsCompressed(call.privateKey)
       /\ privateKeyIsCompressed(call.privateKey) <=> Len(bytes) = 33
       /\ publicKeyIsCompressed(BytesOf(public)) <=> public[1] # 4
       /\ Len(public) = IF Len(bytes) = 33 THEN 33 ELSE 65
       /\ SubSeq(public, 2, 33) = PointOf(Take(bytes, 32)).x

C20_Witness ==
  /\ call.fn = "privateKeyToPublic"
  /\ call.privateKey.kind = "string"
  /\ Len(call.privateKey.hex) = 66
  /\ hexToBytes(call.result)[1] \in {2, 3}
  /\ Len(call.result) = 66

(***************************************************************************)
(* The PoisonMicroblock payload.                                           *)
(***************************************************************************)
\* C22: a PoisonMicroblock payload is serialized as the one byte 3, and a
\* buffer that starts with the byte 3 decodes to a PoisonMicroblock payload
\* with exactly that byte consumed, whatever follows it.
C22_PoisonIsTagOnly ==
  /\ (/\ stage \in {"serialized", "decoded"}
      /\ wireKind = "serialized"
      /\ created.value.payloadType = PayloadType.PoisonMicroblock)
       => wire = << 3 >>
  /\ (stage = "decoded" /\ Len(wire) >= 1 /\ wire[1] = 3)
       => /\ decoded.ok
          /\ decoded.value = [payloadType |-> PayloadType.PoisonMicroblock]
          /\ decoded.consumed = 1

C22_Witness ==
  /\ stage = "decoded"
  /\ Len(wire) > 1
  /\ wire[1] = 3
  /\ decoded.ok
  /\ decoded.consumed = 1

(***************************************************************************)
(* Decoding a payload that is followed by other bytes.                     *)
(***************************************************************************)
\* the payload was decoded from a buffer in which other bytes follow it
FollowedDone == stage = "decoded" /\ wireKind = "followed"

\* C26: when the bytes of serializePayloadBytes(p) are followed by other
\* bytes, deserializePayloadBytes returns p and has consumed exactly the
\* bytes of p: no byte that follows is read and no byte of p is left.
C26_ExactConsumption ==
  FollowedDone =>
    /\ decoded.ok
    /\ decoded.value = created.value
    /\ decoded.consumed = Len(serializePayloadBytes(created.value))

\* what holds of C26: the same for payloads of the wire format's widths,
\* and a payload that follows in the buffer is decoded next
C26_ExactConsumptionWireSized ==
  (FollowedDone /\ FieldsOfWireSize(created.value)) =>
    /\ decoded.ok
    /\ decoded.value = created.value
    /\ decoded.consumed = Len(serializePayloadBytes(created.value))
    /\ wire[Len(wire)] = 3 =>
         LET next == deserializePayloadBytes(wire, decoded.consumed)
         IN next.ok /\ next.consumed = Len(wire)
              /\ next.value.payloadType = PayloadType.PoisonMicroblock

\* a TenureChange payload with a 21-byte tenure hash, decoded as another
\* payload with its last byte left in the buffer
C26_Witness ==
  /\ FollowedDone
  /\ created.value.payloadType = PayloadType.TenureChange
  /\ Len(created.value.tenureHash) = 42
  /\ decoded.ok
  /\ decoded.value # created.value
  /\ decoded.consumed = Len(serializePayloadBytes(created.value)) - 1

(***************************************************************************)
(* Payloads after their construction.                                      *)
(***************************************************************************)
\* C21: a payload that exists is not changed by any later operation: as
\* long as it is kept, every field of it, the functionArgs of a ContractCall
\* payload included, stays what the constructor made it.
C21_NeverMutated ==
  [][(stage # "idle" /\ stage' # "idle") => created' = created]_vars

\* a ContractCall payload whose first argument is the amount less the fee,
\* which no constructor call of the model passes
C21_Witness ==
  /\ stage = "created"
  /\ created.ok
  /\ created.value.payloadType = PayloadType.ContractCall
  /\ Len(created.value.functionArgs) >= 1
  /\ created.value.functionArgs[1] = uintCV(IntOf(BigIntOfNumber(6))).value

(***************************************************************************)
(* The transaction options of the delegated stacking calls.                *)
(***************************************************************************)
DelegateStackOptionsFns ==
  {"getDelegateStackOptions", "getDelegateStackExtendOptions",
   "getDelegateStackIncreaseOptions"}

\* the call returned transaction options
OptionsReturned == call.fn \in DelegateStackOptionsFns /\ call.result.ok

\* what holds of C25: a nonce that is true in a condition is carried
C25_TruthyNonceCarried ==
  OptionsReturned =>
    IF Truthy(call.nonce)
      THEN "nonce" \in DOMAIN call.result.value
             /\ call.result.value.nonce = call.nonce
      ELSE "nonce" \notin DOMAIN call.result.value

\* C25: the options returned by getDelegateStackOptions,
\* getDelegateStackExtendOptions and getDelegateStackIncreaseOptions carry the
\* nonce the caller supplied, whatever its value (0 included), and carry no
\* nonce when none was supplied.
C25_NonceCarried ==
  OptionsReturned =>
    IF call.nonce # Undefined
      THEN "nonce" \in DOMAIN call.result.value
             /\ call.result.value.nonce = call.nonce
      ELSE "nonce" \notin DOMAIN call.result.value

\* the nonce 0 was supplied and the options carry none
C25_Witness ==
  /\ OptionsReturned
  /\ call.nonce = Num(0)
  /\ "nonce" \notin DOMAIN call.result.value

(***************************************************************************)
(* Version comparison.                                                     *)
(***************************************************************************)
\* component i of a version, 0 when the version has fewer components
Component(tuple, i) == IF i <= Len(tuple) THEN tuple[i] ELSE 0

\* t1 >= t2: they are equal, or t1 is greater at the first difference
VersionAtLeast(t1, t2) ==
  LET n == IF Len(t1) > Len(t2) THEN Len(t1) ELSE Len(t2)
      differ == {i \in 1 .. n : Component(t1, i) # Component(t2, i)}
  IN differ = {} \/
       LET first == CHOOSE i \in differ : \A j \in differ : i <= j
       IN Component(t1, first) > Component(t2, first)

\* C23: isLaterVersion(v1, v2) is true exactly when v1 >= v2, the dotted
\* components compared as numbers from the most significant one, a missing
\* trailing component counted as 0.
C23_VersionOrder ==
  call.fn = "isLaterVersion" => (call.result <=> VersionAtLeast(call.t1, call.t2))

\* isLaterVersion('10.0', '1.1') is false
C23_Witness ==
  /\ call.fn = "isLaterVersion"
  /\ call.t1 = << 10, 0 >>
  /\ call.t2 = << 1, 1 >>
  /\ ~call.result


(***************************************************************************)
(* The PoX operation period.                                               *)
(***************************************************************************)
PoxInfoReturned == call.fn = "getPoxOperationInfo"

\* the node reports no burn height, no versions or at most one version
NodeKnowsOneVersion ==
  \/ ~Truthy(call.poxInfo.current_burnchain_block_height)
  \/ "undefined" \in DOMAIN call.poxInfo.contract_versions
  \/ Len(call.poxInfo.contract_versions.versions) <= 1

\* the reported versions with exactly rank versions activated before them
VersionsOfRank(rank) ==
  LET versions == call.poxInfo.contract_versions.versions
  IN {versions[i] : i \in {i \in 1 .. Len(versions) :
        Cardinality({j \in 1 .. Len(versions) :
          versions[j].activation_burnchain_block_height < versions[i].activation_burnchain_block_height}) = rank}}

ActiveIsOfRank(rank) == \E version \in VersionsOfRank(rank) : version.contract_id = call.poxInfo.contract_id

BlocksUntilSecondVersion ==
  LET pox2 == CHOOSE version \in VersionsOfRank(1) : TRUE
  IN pox2.activation_burnchain_block_height - call.poxInfo.current_burnchain_block_height.number

\* the period the claim gives the reported PoX info, 0 where it throws
ExpectedPeriod ==
  IF NodeKnowsOneVersion \/ ~call.isPox2Configured THEN 1
  ELSE IF ActiveIsOfRank(0) THEN 2
  ELSE IF ActiveIsOfRank(1) THEN 3
  ELSE 0

\* The period of the result is the one of the classification, and the call
\* throws where the classification gives none.
C29_PeriodClassified ==
  PoxInfoReturned =>
    IF ExpectedPeriod = 0 THEN ~call.result.ok
    ELSE call.result.ok /\ call.result.value.period = ExpectedPeriod

\* C29: getPoxOperationInfo gives period 1 when the node reports no burn
\* height, no or at most one contract version, or PoX-2 is not configured;
\* period 2 with burnBlocksUntilPox2 = PoX-2 activation height - current burn
\* height when the active contract is the earliest version; period 3 when it
\* is the second version; otherwise it throws.  burnBlocksUntilPox2 is present
\* only in a period-2 result.
C29_PoxOperationInfo ==
  PoxInfoReturned =>
    IF ExpectedPeriod = 0 THEN ~call.result.ok
    ELSE /\ call.result.ok
         /\ call.result.value =
              IF ExpectedPeriod = 2
              THEN [period |-> 2, burnBlocksUntilPox2 |-> BlocksUntilSecondVersion]
              ELSE [period |-> ExpectedPeriod]

\* PoX-2 is not configured and the result is period 1 with the blocks left
C29_Witness ==
  /\ PoxInfoReturned
  /\ ~NodeKnowsOneVersion
  /\ ~call.isPox2Configured
  /\ call.result.ok
  /\ call.result.value.period = 1
  /\ "burnBlocksUntilPox2" \in DOMAIN call.result.value
  /\ call.result.value.burnBlocksUntilPox2 = 50


(***************************************************************************)
(* The compression marker of a private key and the signature.              *)
(***************************************************************************)
\* signWithKey was called with a 32-byte key, given as bytes or in hex
SignedWithBareKey ==
  /\ call.fn = "signWithKey"
  /\ Len(privateKeyToBytes(call.privateKey)) = 32

\* the key of the call followed by the compression marker
MarkedKey == BytesOf(privateKeyToBytes(call.privateKey) \o << 1 >>)

\* an uncompressed and a compressed encoding of one curve point
SamePointTwoEncodings(uncompressed, compressed) ==
  /\ Len(uncompressed) = 65
  /\ Len(compressed) = 33
  /\ uncompressed[1] = 4
  /\ compressed[1] = 2 + (uncompressed[65] % 2)
  /\ SubSeq(uncompressed, 2, 33) = SubSeq(compressed, 2, 33)

\* C30: for a 32-byte key k and a digest h, signWithKey(k, h) is what
\* signWithKey(k followed by the marker 01, h) returns, byte for byte, while
\* privateKeyToPublic gives the uncompressed encoding for k and the
\* compressed encoding of the same curve point for the marked key.
C30_MarkerIgnoredBySigning ==
  SignedWithBareKey =>
    /\ call.result = signWithKey(MarkedKey, call.messageHash)
    /\ privateKeyToPublic(call.privateKey) # privateKeyToPublic(MarkedKey)
    /\ SamePointTwoEncodings(hexToBytes(privateKeyToPublic(call.privateKey)),
                             hexToBytes(privateKeyToPublic(MarkedKey)))

\* the marked key signed a digest first, the bare key signs it again and the
\* signature is the same
C30_Witness ==
  /\ SignedWithBareKey
  /\ signed # NoCall
  /\ signed.fn = "signWithKey"
  /\ signed.privateKey = MarkedKey
  /\ signed.messageHash = call.messageHash
  /\ call.result.ok
  /\ signed.result = call.result


(***************************************************************************)
(* The PoX-2 operations and the check that PoX-2 is live.                  *)
(***************************************************************************)
InPox2Operation == client # NoOperation /\ client.name \in Pox2Operations

\* the operation info of what the node reported, for either answer about
\* the configuration of PoX-2, is period 1
NodeInPeriod1 ==
  \A isPox2Configured \in BOOLEAN :
    LET info == getPoxOperationInfo(client.poxInfo, isPox2Configured)
    IN info.ok /\ info.value.period = 1

\* C28: stackExtend, stackIncrease, delegateStackExtend and
\* delegateStackIncrease build and broadcast their transaction only after
\* ensurePox2IsLive passed on the current operation info, and an operation
\* whose check failed has built and broadcast nothing.
C28_CheckedBeforeBuilt ==
  InPox2Operation =>
    /\ (client.built \/ client.broadcast) => client.checked
    /\ (client.pc = "rejected") => (~client.built /\ ~client.broadcast)

\* The three operations that ask for the operation info build and broadcast
\* only after the check passed on an info that is not period 1.
C28_CheckedWhereAsked ==
  (InPox2Operation /\ GetsPoxOperationInfo(client.name)) =>
    /\ (client.built \/ client.broadcast) =>
         (client.checked /\ client.poxOperationInfo.period # 1)
    /\ (client.pc = "rejected") => (~client.built /\ ~client.broadcast)

\* delegateStackExtend has broadcast its transaction while the node is in
\* period 1, and no check was made
C28_Witness ==
  /\ InPox2Operation
  /\ client.name = "delegateStackExtend"
  /\ client.broadcast
  /\ ~client.checked
  /\ NodeInPeriod1


(***************************************************************************)
(* The sign-in.                                                            *)
(***************************************************************************)
Pending(i) == promises[i] # NoPromise /\ promises[i].outer = "pending"

Settles(i) == promises[i] = NoPromise \/ promises[i].outer \in {"resolved", "rejected"}

\* C24: the promise returned by handlePendingSignIn always eventually
\* settles: resolved when the verification succeeds, rejected when it
\* returns false or fails, or when no sign-in is pending; it never stays
\* pending forever.
C24_AlwaysSettles == \A i \in 1 .. MaxSignIns : Pending(i) ~> Settles(i)

\* A promise is settled as soon as verifyAuthResponse has thrown or its
\* promise has resolved: resolved for true and rejected otherwise, and it
\* is pending later only where the verification's promise has rejected.
C24_SettledUnlessVerificationRejects ==
  \A i \in 1 .. MaxSignIns :
    promises[i] # NoPromise =>
      /\ promises[i].verification = "true" <=> promises[i].outer = "resolved"
      /\ promises[i].verification \in {"false", "thrown"} <=> promises[i].outer = "rejected"
      /\ promises[i].verification \in {"pending", "rejected"} <=> promises[i].outer = "pending"

\* the verification of a token has failed and the promise is still pending
C24_Witness ==
  \E i \in 1 .. MaxSignIns :
    /\ Pending(i)
    /\ promises[i].verification = "rejected"
    /\ promises[i].authResponseToken = "broken"

\* the step is a callback of then that writes the user data
WritesUserData(i) ==
  /\ promises[i] # NoPromise
  /\ promises[i].verification = "pending"
  /\ promises'[i].verification = "true"
  /\ storage' = [authResponseToken |-> promises[i].authResponseToken]

\* C27: user data is written to local storage only after verifyAuthResponse
\* returned true for the token being handled, and once signUserOut has run
\* isUserSignedIn() is false until a handlePendingSignIn call that was
\* started after the sign-out succeeds, in every interleaving.
C27_SignedOutUntilNewSignIn ==
  [][(storage' # storage /\ storage' # NoItem) =>
       \E i \in 1 .. MaxSignIns : WritesUserData(i) /\ ~promises[i].signedOutSince]_vars

\* Local storage is written only by the callback of a verification that
\* returned true, with the token of that call.
C27_WrittenOnlyWhenVerified ==
  [][(storage' # storage /\ storage' # NoItem) =>
       \E i \in 1 .. MaxSignIns :
         /\ WritesUserData(i)
         /\ verifyAuthResponse(promises[i].authResponseToken) = {"true"}]_vars

\* a sign-in that was started before the sign-out has succeeded after it,
\* and the user is signed in though the address holds no token
C27_Witness ==
  /\ isUserSignedIn
  /\ location = "none"
  /\ \E i \in 1 .. MaxSignIns :
       /\ promises[i] # NoPromise
       /\ promises[i].outer = "resolved"
       /\ promises[i].signedOutSince
       /\ storage.authResponseToken = promises[i].authResponseToken
       /\ \A j \in 1 .. MaxSignIns : j # i => promises[j] = NoPromise

====
